---- MODULE Spec2Model ----
(***************************************************************************)
(* Model of the lo1 orchestration engine: startWorkspace (stale cleanup,   *)
(* configuration, compose phases, layered service start with teardown),    *)
(* startService (hooks, runner choice, readiness probe) and stopWorkspace. *)
(* Every await of the source is a step; the outcome of an external call    *)
(* (subprocess, filesystem, HTTP) is drawn from the outcomes the call can  *)
(* produce.  Service names are the integers 1..3; their numeric order      *)
(* stands for the lexicographic order of the names.                        *)
(*                                                                         *)
(* Spec is the orchestrator.  WaitSpec runs composeWait on its own against *)
(* the statuses `docker compose ps` can report, and ProcSpec runs one      *)
(* ProcessHandle (startProcess, stop) on its own.  ContSpec runs the stop  *)
(* of one ContainerHandle, ReadySpec one waitForReady call, TlsSpec two    *)
(* trustCaddyCa calls.  DagSpec, FilterSpec, HostsSpec and EnvSpec apply   *)
(* buildDag, resolveServiceFilter, replaceHostsBlock / removeHostsBlock    *)
(* and buildServiceEnv to inputs drawn from bounded sets.  Each            *)
(* specification leaves the variables of the others at rest.               *)
(***************************************************************************)
EXTENDS Integers, Sequences, FiniteSets, TLC

\* ------------------------------------------------------------------ bounds
\* Largest number of service entries in a state file left by an earlier run.
MaxStale == 2

\* Largest number of stopWorkspace calls made after a start.
MaxStopCalls == 2

\* Lines of the hosts files replaceHostsBlock is run on.
MaxLines == 4

\* ------------------------------------------------------- program constants
DEFAULT_TIMEOUT_MS == 60000
DEFAULT_INTERVAL_MS == 1000
\* DEFAULT_BACKOFF_MULTIPLIER = 1.5, kept as the fraction 3/2
BACKOFF_NUM == 3
BACKOFF_DEN == 2
DEFAULT_MAX_INTERVAL_MS == 5000

\* composeWait: pollInterval ?? 2000
DEFAULT_POLL_INTERVAL == 2000

\* process runner: stop(timeoutMs = DEFAULT_STOP_TIMEOUT)
DEFAULT_STOP_TIMEOUT == 5000

\* startContainer: default `docker stop -t` seconds; hydrateHandle: default
\* stop timeout of a hydrated container handle
DEFAULT_STOP_TIMEOUT_SEC == 10
HYDRATED_STOP_TIMEOUT_MS == 10000

\* ------------------------------------------------------------ input space
Services == {1, 2, 3}

\* the compose services composeWait is run on
WaitNames == {"db", "migrate"}

\* the values of options.timeout composeWait is run with
WaitTimeouts == {0, 2000}

\* the values of timeoutMs stop() is called with
StopTimeouts == {0, 2000, DEFAULT_STOP_TIMEOUT}

\* the grain of the clock the SIGKILL timer is watched on
TickMs == 1000

\* waitForReady: the inner timeout of one fetch
FETCH_TIMEOUT_MS == 5000

\* the options waitForReady is run with; the multiplier is a fraction
ReadyTimeouts == {100, 3000}
ReadyIntervals == {0, 1000, 2000}
ReadyBackoffs == {<<1, 1>>, <<BACKOFF_NUM, BACKOFF_DEN>>, <<2, 1>>}
ReadyMaxIntervals == {1000, DEFAULT_MAX_INTERVAL_MS}

\* the times one fetch can take to settle
FetchDurations == {0, 1000, FETCH_TIMEOUT_MS}

\* stop() called without a timeout
NoTimeoutGiven == -1

\* the manifests buildDag is run on: three services, named by numbers so
\* that sort() is the numeric order, whose keys come in one of two insertion
\* orders and whose dependsOn lists hold up to two names, repeats, the
\* service itself and a name that is no service included
DagNames == {1, 2, 3}
UnknownName == 9
DagKeyOrders == {<<1, 2, 3>>, <<3, 1, 2>>}
DepTargets == DagNames \cup {UnknownName}
DepLists == {<<>>} \cup {<<x>> : x \in DepTargets}
              \cup {<<x, y>> : x \in DepTargets, y \in DepTargets}

\* serviceConfig.env of a service that defines none
NoEnv == [vars |-> <<>>, defined |-> FALSE]

\* a file that does not exist
NoFile == [text |-> "", nl |-> FALSE, missing |-> TRUE]

\* timeouts a ContainerHandle is stopped with
ContStopTimeouts == {NoTimeoutGiven, 0, 1, 1000, 1001, 2500}

NoState == [present |-> FALSE]

OldProject == "lo1-old"

\* A ServiceConfig: the fields startService and the orchestrator read.
SvcCfg(deps, mode, builtin, pluginContainer, command, image, probe, pre, post) ==
  [dependsOn |-> deps, mode |-> mode, builtin |-> builtin,
   pluginContainer |-> pluginContainer, command |-> command,
   containerImage |-> image, readinessProbe |-> probe,
   preStart |-> pre, postStart |-> post]

\* dev-mode builtin service run by the process runner
Proc(deps, probe, pre, post) ==
  SvcCfg(deps, "dev", TRUE, FALSE, TRUE, FALSE, probe, pre, post)

\* container-mode service with an image: compose-managed
Comp(deps, probe) ==
  SvcCfg(deps, "container", TRUE, FALSE, FALSE, TRUE, probe, FALSE, FALSE)

\* service of a plugin type whose plugin has configureContainer
Plug(deps, probe) ==
  SvcCfg(deps, "dev", FALSE, TRUE, FALSE, FALSE, probe, FALSE, FALSE)

\* mode = skip
Skip(deps) ==
  SvcCfg(deps, "skip", TRUE, FALSE, TRUE, FALSE, FALSE, FALSE, FALSE)

\* dev-mode builtin service without a command: no valid runner
NoCmd(deps) ==
  SvcCfg(deps, "dev", TRUE, FALSE, FALSE, FALSE, FALSE, FALSE, FALSE)

WsCfg(name, svcs, proxy, tls, postInfra, postSetup, preStop) ==
  [name |-> name, services |-> svcs, proxyEnabled |-> proxy, tlsEnabled |-> tls,
   hookPostInfrastructure |-> postInfra, hookPostSetup |-> postSetup,
   hookPreStop |-> preStop]

\* The manifests the model is run on.
Configs ==
  { \* diamond base: 1 <- {2, 3}; 2 probes, 3 has a postStart hook
    WsCfg("diamond",
          (1 :> Proc({}, FALSE, TRUE, FALSE) @@
           2 :> Proc({1}, TRUE, FALSE, FALSE) @@
           3 :> Proc({1}, FALSE, FALSE, TRUE)),
          TRUE, TRUE, TRUE, TRUE, TRUE),
    \* two roots and a dependent; one compose-managed, one plugin container
    WsCfg("fanin",
          (1 :> Comp({}, TRUE) @@
           2 :> Plug({}, FALSE) @@
           3 :> Proc({1, 2}, FALSE, FALSE, FALSE)),
          FALSE, FALSE, FALSE, FALSE, FALSE),
    \* linear chain with a skipped middle service
    WsCfg("chain",
          (1 :> Proc({}, FALSE, FALSE, FALSE) @@
           2 :> Skip({1}) @@
           3 :> Proc({2}, FALSE, FALSE, FALSE)),
          FALSE, FALSE, FALSE, TRUE, FALSE),
    \* a service without a valid runner next to a healthy sibling
    WsCfg("norunner",
          (1 :> Proc({}, FALSE, FALSE, FALSE) @@
           2 :> NoCmd({})),
          FALSE, FALSE, FALSE, FALSE, TRUE),
    \* proxy and a compose-managed service (both compose phases run), and a
    \* dependent with both hooks and a probe
    WsCfg("stack",
          (1 :> Comp({}, FALSE) @@
           2 :> Proc({1}, TRUE, TRUE, TRUE)),
          TRUE, FALSE, FALSE, FALSE, FALSE) }

\* ---------------------------------------------------------------- helpers
RECURSIVE SeqOfSet(_)
\* The members of a set of names in sorted order (Array.prototype.sort).
SeqOfSet(S) ==
  IF S = {} THEN <<>>
  ELSE LET m == CHOOSE x \in S : \A y \in S : x <= y
       IN <<m>> \o SeqOfSet(S \ {m})

Range(q) == {q[i] : i \in 1..Len(q)}

RECURSIVE KahnLayers(_, _)
\* The layers peeled from the services not yet placed.
KahnLayers(cfg, placed) ==
  LET names == DOMAIN cfg.services
      ready == {n \in names \ placed : cfg.services[n].dependsOn \subseteq placed}
  IN  IF ready = {} THEN <<>>
      ELSE <<SeqOfSet(ready)>> \o KahnLayers(cfg, placed \cup ready)

buildDag(cfg) == KahnLayers(cfg, {})

projectId(name) == "lo1-" \o name

\* generateCompose: the infra / app partition
infraServices(cfg) == IF cfg.proxyEnabled THEN {"proxy"} ELSE {}

appServices(cfg) == {n \in DOMAIN cfg.services : cfg.services[n].mode = "container"}

\* startService: which runner the service gets
RunnerOf(sc) ==
  IF sc.pluginContainer THEN "container"
  ELSE IF sc.mode = "dev" /\ sc.builtin
       THEN (IF sc.command THEN "process" ELSE "none")
  ELSE IF sc.mode = "container" /\ sc.containerImage THEN "compose"
  ELSE "none"

\* hydrateHandles: one handle per entry of state.services, in key order
hydrateHandles(state) == SeqOfSet(DOMAIN state.services)

\* Runner recorded for the i-th entry of a stale state file.
StaleRunner(i) == IF i = 1 THEN "process" ELSE IF i = 2 THEN "container" ELSE "compose"

StaleState(k) ==
  [present |-> TRUE, projectName |-> OldProject,
   services |-> [i \in 1..k |-> StaleRunner(i)]]

\* ------------------------------------------------------------------ state
VARIABLES
  config,          \* the WorkspaceConfig loadConfig yields
  pc,              \* where startWorkspace / stopWorkspace stands
  aborted,         \* options.signal.aborted
  abortedAfterStart, \* the signal tripped when a handle had been produced
  stateFile,       \* <workspaceDir>/.lo1/state.json
  written,         \* generated artefacts written so far
  composeUpCalled, \* compose phases for which composeUp was invoked
  composeDownCalls,\* projects composeDown was invoked on, in order
  logsHandle,      \* compose log follower: "none", "running", "killed"
  staleIdx,        \* cleanupStaleWorkspace: next stale handle
  staleStopped,    \* stale handles whose stop() was invoked
  layerIdx,        \* startServicesInLayers: current layer
  spc,             \* per service: where its startService call stands
  rej,             \* per service: reason its startService call rejected with
  probeResult,     \* per service: how waitForReady failed, if it did
  elapsed,         \* per service: waitForReady, Date.now() - start
  interval,        \* per service: waitForReady, current sleep interval
  liveStop,        \* per service: result of stop() on its live handle
  allHandles,      \* startServicesInLayers: handles collected so far
  tdIdx,           \* failure teardown: next handle to stop
  err,             \* the error startWorkspace rejects with
  failPhase,       \* the step at which that error was raised
  lateFulfil,      \* a sibling fulfilled after a member of its layer rejected
  stopHandles,     \* stopWorkspace: "none", "live" (options.handles), "hydrated"
  stopIdx,         \* stopWorkspace: next handle to stop
  hydStop,         \* stopWorkspace: hydrated handles whose stop() was invoked
  stopErr,         \* the error stopWorkspace rejects with
  existingState,   \* cleanupStaleWorkspace: what readState returned
  abortPc,         \* the step startWorkspace stood at when the signal tripped
  waited,          \* compose phases whose composeWait has resolved
  svcLog,          \* per service: the steps of its start completed, in order
  stopLog,         \* stopWorkspace: the calls made and phases emitted, in order
  stopCalls,       \* number of stopWorkspace calls made
  \* composeWait, run on its own
  wServices,       \* options.services
  wMustExit,       \* options.waitForExit
  wTimeout,        \* options.timeout
  wSignal,         \* options.signal.aborted
  wpc,             \* where composeWait stands
  wStatuses,       \* what the last composePs returned, by service
  wNow,            \* Date.now() - startTime
  wPolls,          \* number of composePs calls made
  wErr,            \* what composeWait threw
  wMsg,            \* the services its timeout message lists, each with its note
  \* a ProcessHandle, run on its own
  platform,        \* platform()
  timeoutMs,       \* stop(timeoutMs)
  heedsTerm,       \* the command exits on SIGTERM
  child,           \* the child process: "none", "running", "spawnFailed",
                   \* "closed", "errored"
  isRunning,       \* the handle's isRunning flag
  exitPromise,     \* the value exitPromise resolved with, "pending" before
  kills,           \* the signals child.kill was called with, in order
  timer,           \* the SIGKILL timer: "none", "armed", "fired", "cleared"
  clock,           \* time since stop() was called
  ppc,             \* where stop() stands
  stopResult,      \* the value stop() resolved with
  \* a ContainerHandle, run on its own
  cHydrated,       \* the handle was rebuilt from the state file (hydrateHandle)
  cTimeoutMs,      \* stop(timeoutMs), NoTimeoutGiven when omitted
  cContainer,      \* the container as docker sees it: "running", "exited",
                   \* "removed"
  cLogChild,       \* the `docker logs -f` child: "none", "running", "closed",
                   \* "killed"
  cIsRunning,      \* the handle's isRunning flag
  cLog,            \* the commands stop() issued and how they ended, in order
  cpc,             \* where stop() stands
  \* waitForReady, run on its own
  rTimeoutMs,      \* options.timeoutMs
  rIntervalMs,     \* options.intervalMs
  rBackoff,        \* options.backoffMultiplier, as a fraction
  rMaxInterval,    \* options.maxIntervalMs
  rSignal,         \* options.signal.aborted
  rNow,            \* Date.now() - start
  rInterval,       \* the current sleep interval
  rReason,         \* the reason of the ReadinessProbeError thrown
  rAbortPc,        \* where waitForReady stood when the signal tripped
  rpc,             \* where waitForReady stands
  \* buildDag, run on its own
  dServices,       \* Object.keys(config.services), in insertion order
  dDeps,           \* per service: its dependsOn list
  dResult,         \* what buildDag returned or threw
  dpc,             \* where buildDag stands
  \* resolveServiceFilter, run on its own
  fRequested,      \* requested: the names given to --services
  fDeps,           \* per service of the config: its dependsOn list
  fResult,         \* what resolveServiceFilter returned or threw
  fpc,             \* where resolveServiceFilter stands
  \* replaceHostsBlock and removeHostsBlock, run on their own
  hContent,        \* currentContent: the hosts file, as a list of characters
  hBlock,          \* block: the generated hosts block
  hReplaced,       \* what replaceHostsBlock(hContent, hBlock) returned
  hRemoved,        \* what removeHostsBlock(hReplaced) returned
  hpc,             \* which of the two calls have been made
  \* trustCaddyCa, called twice on its own
  tCert,           \* the root certificate the proxy container holds
  tHashFile,       \* <workspaceDir>/.lo1/caddy-root.crt.sha256
  tCertFile,       \* <workspaceDir>/.lo1/caddy-root.crt
  tCachedAtFirst,  \* the hash file matched the certificate before the first call
  tInstalls,       \* per call: the installOnHost invocations it made
  tOutcomes,       \* how the calls made so far ended, in order
  tpc,             \* where the current call stands
  \* buildServiceEnv, run on its own
  eServiceEnv,     \* serviceConfig.env, NoEnv when the service defines none
  ePluginEnv,      \* pluginEnvVars
  eMode,           \* consumerMode
  eResult,         \* the environment buildServiceEnv returned
  epc,             \* where buildServiceEnv stands
  \* buildEndpointRegistry, run on its own
  gServices,       \* config.services: per service its port, hostPort and mode
  gTls,            \* config.proxy.tls.enabled
  gResult,         \* registry.endpoints
  gpc,             \* where buildEndpointRegistry stands
  \* the up command around startWorkspace
  uSkipTeardown,   \* --skip-teardown
  uDetached,       \* --detach
  uStartupError,   \* startupError
  upc,             \* where the up command stands
  \* the stop() of a process handle hydrated from the state file
  hyPid,           \* svc.pid
  hyProc,          \* the process with that pid: "running" or "exited"
  hyHeedsTerm,     \* whether that process exits on SIGTERM
  hyKills,         \* the signals process.kill delivered, in order
  hyClock,         \* time since stop() was called
  hypc             \* where stop() stands

envVars == <<config, aborted, abortedAfterStart>>
fsVars == <<stateFile, written>>
composeVars == <<composeUpCalled, composeDownCalls, logsHandle>>
staleVars == <<staleIdx, staleStopped>>
svcVars == <<spc, rej, probeResult, elapsed, interval, lateFulfil>>
layerVars == <<layerIdx, allHandles, tdIdx>>
resultVars == <<err, failPhase>>
stopVars == <<stopHandles, stopIdx, hydStop, stopErr>>
histVars == <<existingState, abortPc, waited, svcLog, stopLog, stopCalls>>
waitVars == <<wServices, wMustExit, wTimeout, wSignal, wpc, wStatuses, wNow, wPolls,
              wErr, wMsg>>
procVars == <<platform, timeoutMs, heedsTerm, child, isRunning, exitPromise, kills,
              timer, clock, ppc, stopResult>>

contVars == <<cHydrated, cTimeoutMs, cContainer, cLogChild, cIsRunning, cLog, cpc>>

readyVars == <<rTimeoutMs, rIntervalMs, rBackoff, rMaxInterval, rSignal, rNow,
               rInterval, rReason, rAbortPc, rpc>>

dagVars == <<dServices, dDeps, dResult, dpc>>

filterVars == <<fRequested, fDeps, fResult, fpc>>

hostsVars == <<hContent, hBlock, hReplaced, hRemoved, hpc>>

tlsVars == <<tCert, tHashFile, tCertFile, tCachedAtFirst, tInstalls,
             tOutcomes, tpc>>

svcEnvVars == <<eServiceEnv, ePluginEnv, eMode, eResult, epc>>

regVars == <<gServices, gTls, gResult, gpc>>

upVars == <<uSkipTeardown, uDetached, uStartupError, upc>>

hydVars == <<hyPid, hyProc, hyHeedsTerm, hyKills, hyClock, hypc>>

\* the variables of the units run on their own, besides composeWait and
\* startProcess
unitVars == <<contVars, readyVars, dagVars, filterVars, hostsVars,
             tlsVars,
             svcEnvVars,
             regVars,
             upVars,
             hydVars>>

vars == <<config, pc, aborted, abortedAfterStart, stateFile, written, composeUpCalled,
          composeDownCalls, logsHandle, staleIdx, staleStopped, layerIdx, spc,
          rej, probeResult, elapsed, interval, liveStop, allHandles, tdIdx, err,
          failPhase,
          lateFulfil, stopHandles, stopIdx, hydStop, stopErr, histVars,
          waitVars, procVars, unitVars>>

\* the orchestrator's variables
orchVars == <<config, pc, aborted, abortedAfterStart, stateFile, written,
              composeUpCalled, composeDownCalls, logsHandle, staleIdx, staleStopped,
              layerIdx, spc, rej, probeResult, elapsed, interval, liveStop,
              allHandles, tdIdx, err, failPhase, lateFulfil, stopHandles, stopIdx,
              hydStop, stopErr, histVars>>

Names == DOMAIN config.services

layers == buildDag(config)

projectName == projectId(config.name)

\* composeWait has not been called
WaitIdle ==
  /\ wServices = {}
  /\ wMustExit = {}
  /\ wTimeout = 0
  /\ wSignal = FALSE
  /\ wpc = "idle"
  /\ wStatuses = <<>>
  /\ wNow = 0
  /\ wPolls = 0
  /\ wErr = "none"
  /\ wMsg = {}

\* no process has been spawned
ProcIdle ==
  /\ platform = "posix"
  /\ timeoutMs = 0
  /\ heedsTerm = FALSE
  /\ child = "none"
  /\ isRunning = FALSE
  /\ exitPromise = "pending"
  /\ kills = <<>>
  /\ timer = "none"
  /\ clock = 0
  /\ ppc = "idle"
  /\ stopResult = "pending"

\* no container has been started
ContIdle ==
  /\ cHydrated = FALSE
  /\ cTimeoutMs = NoTimeoutGiven
  /\ cContainer = "removed"
  /\ cLogChild = "none"
  /\ cIsRunning = FALSE
  /\ cLog = <<>>
  /\ cpc = "idle"

\* waitForReady has not been called
ReadyIdle ==
  /\ rTimeoutMs = DEFAULT_TIMEOUT_MS
  /\ rIntervalMs = DEFAULT_INTERVAL_MS
  /\ rBackoff = <<BACKOFF_NUM, BACKOFF_DEN>>
  /\ rMaxInterval = DEFAULT_MAX_INTERVAL_MS
  /\ rSignal = FALSE
  /\ rNow = 0
  /\ rInterval = DEFAULT_INTERVAL_MS
  /\ rReason = "none"
  /\ rAbortPc = "none"
  /\ rpc = "idle"

\* buildDag has not been called
DagIdle ==
  /\ dServices = <<>>
  /\ dDeps = <<>>
  /\ dResult = [kind |-> "none"]
  /\ dpc = "idle"

\* resolveServiceFilter has not been called
FilterIdle ==
  /\ fRequested = <<>>
  /\ fDeps = <<>>
  /\ fResult = [kind |-> "none"]
  /\ fpc = "idle"

\* the hosts file has not been touched
HostsIdle ==
  /\ hContent = <<>>
  /\ hBlock = <<>>
  /\ hReplaced = <<>>
  /\ hRemoved = <<>>
  /\ hpc = "idle"

\* trustCaddyCa has not been called
TlsIdle ==
  /\ tCert = "A"
  /\ tHashFile = NoFile
  /\ tCertFile = NoFile
  /\ tCachedAtFirst = FALSE
  /\ tInstalls = <<>>
  /\ tOutcomes = <<>>
  /\ tpc = "idle"

\* buildServiceEnv has not been called
EnvIdle ==
  /\ eServiceEnv = <<>>
  /\ ePluginEnv = <<>>
  /\ eMode = "host"
  /\ eResult = <<>>
  /\ epc = "idle"

\* buildEndpointRegistry has not been called
RegIdle ==
  /\ gServices = <<>>
  /\ gTls = FALSE
  /\ gResult = <<>>
  /\ gpc = "idle"

\* the up command is not what called startWorkspace
UpIdle ==
  /\ uSkipTeardown = FALSE
  /\ uDetached = FALSE
  /\ uStartupError = "none"
  /\ upc = "idle"

\* no hydrated process handle has been asked to stop
HydIdle ==
  /\ hyPid = [given |-> FALSE, value |-> 0]
  /\ hyProc = "exited"
  /\ hyHeedsTerm = TRUE
  /\ hyKills = <<>>
  /\ hyClock = 0
  /\ hypc = "none"

\* none of the units run on their own has been called
UnitIdle ==
  /\ ContIdle
  /\ ReadyIdle
  /\ DagIdle
  /\ FilterIdle
  /\ HostsIdle
  /\ TlsIdle
  /\ EnvIdle
  /\ RegIdle
  /\ UpIdle
  /\ HydIdle

\* startWorkspace is called: a manifest, and a state file left by an earlier run
StartInit ==
  /\ existingState = NoState
  /\ abortPc = "none"
  /\ waited = {}
  /\ svcLog = [s \in Services |-> <<>>]
  /\ stopLog = <<>>
  /\ stopCalls = 0
  /\ config \in Configs
  /\ pc = "readState"
  /\ aborted = FALSE
  /\ abortedAfterStart = FALSE
  /\ stateFile \in {NoState} \cup {StaleState(k) : k \in 0..MaxStale}
  /\ written = {}
  /\ composeUpCalled = {}
  /\ composeDownCalls = <<>>
  /\ logsHandle = "none"
  /\ staleIdx = 1
  /\ staleStopped = {}
  /\ layerIdx = 1
  /\ spc = [s \in Services |-> "idle"]
  /\ rej = [s \in Services |-> "none"]
  /\ probeResult = [s \in Services |-> "none"]
  /\ elapsed = [s \in Services |-> 0]
  /\ interval = [s \in Services |-> DEFAULT_INTERVAL_MS]
  /\ liveStop = [s \in Services |-> "none"]
  /\ allHandles = <<>>
  /\ tdIdx = 1
  /\ err = "none"
  /\ failPhase = "none"
  /\ lateFulfil = FALSE
  /\ stopHandles = "none"
  /\ stopIdx = 1
  /\ hydStop = {}
  /\ stopErr = "none"

Init ==
  /\ WaitIdle
  /\ ProcIdle
  /\ UnitIdle
  /\ StartInit

\* ------------------------------------------------------- external outcomes
\* A call that takes the signal fails once the signal has tripped
\* (executeHook's spawn, composeUp's close handler, composeWait's loop head).
SignalledOutcomes == IF aborted THEN {"fail"} ELSE {"ok", "fail"}

Outcomes == {"ok", "fail"}

\* startWorkspace rejects with e, raised at the current step
Reject(e) ==
  /\ pc' = "failed"
  /\ err' = e
  /\ failPhase' = pc

\* the user interrupts (SIGINT / SIGTERM trips the controller)
Abort ==
  /\ ~aborted
  /\ pc \notin {"failed", "done", "stopped", "stopFailed", "noWorkspace"}
  /\ pc \notin {"sReadState", "sPreStop", "sHandles", "sDown", "sRemove"}
  /\ aborted' = TRUE
  /\ abortedAfterStart' = (\E s \in Services : spc[s] = "fulfilled")
  /\ abortPc' = pc
  /\ UNCHANGED <<config, pc, fsVars, composeVars, staleVars, svcVars, liveStop,
                 layerVars, resultVars, stopVars>>
  /\ UNCHANGED <<existingState, waited, svcLog, stopLog, stopCalls, waitVars, procVars, unitVars>>

\* ------------------------------------------------- cleanupStaleWorkspace
\* the start going on without looking at what readState returned
ReadStateIgnored ==
  /\ pc = "readState"
  /\ pc' = "loadConfig"
  /\ existingState' = stateFile
  /\ UNCHANGED <<envVars, fsVars, composeVars, staleVars, svcVars, liveStop,
                 layerVars, resultVars, stopVars>>
  /\ UNCHANGED <<abortPc, waited, svcLog, stopLog, stopCalls, waitVars, procVars, unitVars>>

ReadState ==
  /\ pc = "readState"
  /\ pc' = IF stateFile.present THEN "staleStop" ELSE "loadConfig"
  /\ existingState' = stateFile
  /\ UNCHANGED <<envVars, fsVars, composeVars, staleVars, svcVars, liveStop,
                 layerVars, resultVars, stopVars>>
  /\ UNCHANGED <<abortPc, waited, svcLog, stopLog, stopCalls, waitVars, procVars, unitVars>>

\* stop() of a hydrated handle swallows every failure of kill / docker
StaleStop ==
  /\ pc = "staleStop"
  /\ staleIdx <= Len(hydrateHandles(stateFile))
  /\ staleStopped' = staleStopped \cup {hydrateHandles(stateFile)[staleIdx]}
  /\ staleIdx' = staleIdx + 1
  /\ UNCHANGED <<envVars, pc, fsVars, composeVars, svcVars, liveStop,
                 layerVars, resultVars, stopVars>>
  /\ UNCHANGED <<existingState, abortPc, waited, svcLog, stopLog, stopCalls, waitVars, procVars, unitVars>>

StaleComposeDown ==
  /\ pc = "staleStop"
  /\ staleIdx > Len(hydrateHandles(stateFile))
  /\ composeDownCalls' = Append(composeDownCalls, stateFile.projectName)
  /\ \E o \in Outcomes :
       IF o = "ok"
       THEN pc' = "staleRemove" /\ UNCHANGED resultVars
       ELSE Reject("ComposeExecError")
  /\ UNCHANGED <<envVars, fsVars, composeUpCalled, logsHandle, staleVars,
                 svcVars, liveStop, layerVars, stopVars>>
  /\ UNCHANGED <<existingState, abortPc, waited, svcLog, stopLog, stopCalls, waitVars, procVars, unitVars>>

\* an unlink that misses the file
removeStateKeep(f) == f

\* removeState: unlink, a missing file is ignored
removeState(f) == NoState

StaleRemoveState ==
  /\ pc = "staleRemove"
  /\ stateFile' = removeState(stateFile)
  /\ pc' = "loadConfig"
  /\ UNCHANGED <<envVars, written, composeVars, staleVars, svcVars, liveStop,
                 layerVars, resultVars, stopVars>>
  /\ UNCHANGED <<existingState, abortPc, waited, svcLog, stopLog, stopCalls, waitVars, procVars, unitVars>>

\* ------------------------------------------------ prepareWorkspaceConfig
LoadConfig ==
  /\ pc = "loadConfig"
  /\ \E o \in Outcomes :
       IF o = "ok"
       THEN pc' = "writeCompose" /\ UNCHANGED resultVars
       ELSE Reject("ConfigError")
  /\ UNCHANGED <<envVars, fsVars, composeVars, staleVars, svcVars, liveStop,
                 layerVars, stopVars>>
  /\ UNCHANGED <<existingState, abortPc, waited, svcLog, stopLog, stopCalls, waitVars, procVars, unitVars>>

WriteComposeFile ==
  /\ pc = "writeCompose"
  /\ \E o \in Outcomes :
       IF o = "ok"
       THEN /\ written' = written \cup {"compose"}
            /\ pc' = "writeCaddy"
            /\ UNCHANGED resultVars
       ELSE Reject("IOError") /\ UNCHANGED written
  /\ UNCHANGED <<envVars, stateFile, composeVars, staleVars, svcVars, liveStop,
                 layerVars, stopVars>>
  /\ UNCHANGED <<existingState, abortPc, waited, svcLog, stopLog, stopCalls, waitVars, procVars, unitVars>>

\* generateHostsBlock is non-empty exactly when the proxy has domains
WriteCaddyfile ==
  /\ pc = "writeCaddy"
  /\ \E o \in Outcomes :
       IF o = "ok"
       THEN /\ written' = written \cup {"caddy"}
            /\ pc' = IF config.proxyEnabled THEN "applyHosts" ELSE "writeBase"
            /\ UNCHANGED resultVars
       ELSE Reject("IOError") /\ UNCHANGED written
  /\ UNCHANGED <<envVars, stateFile, composeVars, staleVars, svcVars, liveStop,
                 layerVars, stopVars>>
  /\ UNCHANGED <<existingState, abortPc, waited, svcLog, stopLog, stopCalls, waitVars, procVars, unitVars>>

ApplyHosts ==
  /\ pc = "applyHosts"
  /\ \E o \in Outcomes :
       IF o = "ok"
       THEN /\ written' = written \cup {"hosts"}
            /\ pc' = "writeBase"
            /\ UNCHANGED resultVars
       ELSE Reject("HostsError") /\ UNCHANGED written
  /\ UNCHANGED <<envVars, stateFile, composeVars, staleVars, svcVars, liveStop,
                 layerVars, stopVars>>
  /\ UNCHANGED <<existingState, abortPc, waited, svcLog, stopLog, stopCalls, waitVars, procVars, unitVars>>

BaseState == [present |-> TRUE, projectName |-> projectName, services |-> <<>>]

\* the start going on to the compose phases without the baseline write
WriteBaseStateMissing ==
  /\ pc = "writeBase"
  /\ IF aborted
     THEN Reject("OrchestratorError")
     ELSE pc' = "infraUp" /\ UNCHANGED resultVars
  /\ UNCHANGED <<envVars, fsVars, composeVars, staleVars, svcVars, liveStop,
                 layerVars, stopVars>>
  /\ UNCHANGED <<existingState, abortPc, waited, svcLog, stopLog, stopCalls, waitVars, procVars, unitVars>>

\* checkAborted, then the baseline state write
WriteBaseState ==
  /\ pc = "writeBase"
  /\ IF aborted
     THEN Reject("OrchestratorError") /\ UNCHANGED stateFile
     ELSE \E o \in Outcomes :
            IF o = "ok"
            THEN /\ stateFile' = BaseState
                 /\ pc' = "infraUp"
                 /\ UNCHANGED resultVars
            ELSE Reject("IOError") /\ UNCHANGED stateFile
  /\ UNCHANGED <<envVars, written, composeVars, staleVars, svcVars, liveStop,
                 layerVars, stopVars>>
  /\ UNCHANGED <<existingState, abortPc, waited, svcLog, stopLog, stopCalls, waitVars, procVars, unitVars>>

\* ----------------------------------------------------- startComposePhases
\* a failure inside the compose phases kills the log follower, then rethrows
killLogs == IF logsHandle = "running" THEN "killed" ELSE logsHandle

ComposeInfraUp ==
  /\ pc = "infraUp"
  /\ IF infraServices(config) = {}
     THEN pc' = "appUp" /\ UNCHANGED <<composeVars, resultVars>>
     ELSE /\ composeUpCalled' = composeUpCalled \cup {"infra"}
          /\ \E o \in SignalledOutcomes :
               IF o = "ok"
               THEN /\ logsHandle' = "running"
                    /\ pc' = "infraWait"
                    /\ UNCHANGED resultVars
               ELSE Reject("ComposeExecError") /\ logsHandle' = killLogs
          /\ UNCHANGED composeDownCalls
  /\ UNCHANGED <<envVars, fsVars, staleVars, svcVars, liveStop, layerVars, stopVars>>
  /\ UNCHANGED <<existingState, abortPc, waited, svcLog, stopLog, stopCalls, waitVars, procVars, unitVars>>

ComposeInfraWait ==
  /\ pc = "infraWait"
  /\ \E o \in SignalledOutcomes :
       IF o = "ok"
       THEN /\ pc' = "appUp"
            /\ waited' = waited \cup {"infra"}
            /\ UNCHANGED <<logsHandle, resultVars>>
       ELSE /\ Reject("ComposeExecError")
            /\ logsHandle' = killLogs
            /\ UNCHANGED waited
  /\ UNCHANGED <<envVars, fsVars, composeUpCalled, composeDownCalls, staleVars,
                 svcVars, liveStop, layerVars, stopVars>>
  /\ UNCHANGED <<existingState, abortPc, svcLog, stopLog, stopCalls, waitVars, procVars, unitVars>>

\* the app phase brought up while the infra wait is still polling
ComposeAppUpEarly ==
  /\ pc \in {"infraWait", "appUp"}
  /\ IF appServices(config) = {}
     THEN pc' = "tls" /\ UNCHANGED <<composeVars, resultVars>>
     ELSE /\ composeUpCalled' = composeUpCalled \cup {"app"}
          /\ \E o \in SignalledOutcomes :
               IF o = "ok"
               THEN /\ logsHandle' = "running"
                    /\ pc' = "appWait"
                    /\ UNCHANGED resultVars
               ELSE Reject("ComposeExecError") /\ logsHandle' = killLogs
          /\ UNCHANGED composeDownCalls
  /\ UNCHANGED <<envVars, fsVars, staleVars, svcVars, liveStop, layerVars, stopVars>>
  /\ UNCHANGED <<histVars, waitVars, procVars, unitVars>>

ComposeAppUp ==
  /\ pc = "appUp"
  /\ IF appServices(config) = {}
     THEN pc' = "tls" /\ UNCHANGED <<composeVars, resultVars>>
     ELSE /\ composeUpCalled' = composeUpCalled \cup {"app"}
          /\ \E o \in SignalledOutcomes :
               IF o = "ok"
               THEN /\ logsHandle' = "running"
                    /\ pc' = "appWait"
                    /\ UNCHANGED resultVars
               ELSE Reject("ComposeExecError") /\ logsHandle' = killLogs
          /\ UNCHANGED composeDownCalls
  /\ UNCHANGED <<envVars, fsVars, staleVars, svcVars, liveStop, layerVars, stopVars>>
  /\ UNCHANGED <<existingState, abortPc, waited, svcLog, stopLog, stopCalls, waitVars, procVars, unitVars>>

ComposeAppWait ==
  /\ pc = "appWait"
  /\ \E o \in SignalledOutcomes :
       IF o = "ok"
       THEN /\ pc' = "tls"
            /\ waited' = waited \cup {"app"}
            /\ UNCHANGED <<logsHandle, resultVars>>
       ELSE /\ Reject("ComposeExecError")
            /\ logsHandle' = killLogs
            /\ UNCHANGED waited
  /\ UNCHANGED <<envVars, fsVars, composeUpCalled, composeDownCalls, staleVars,
                 svcVars, liveStop, layerVars, stopVars>>
  /\ UNCHANGED <<existingState, abortPc, svcLog, stopLog, stopCalls, waitVars, procVars, unitVars>>

\* ------------------------------------- TLS trust, hooks, plugin lifecycle
TrustCaddyCa ==
  /\ pc = "tls"
  /\ IF config.tlsEnabled
     THEN \E o \in Outcomes :
            IF o = "ok"
            THEN pc' = "postInfra" /\ UNCHANGED resultVars
            ELSE Reject("TlsError")
     ELSE pc' = "postInfra" /\ UNCHANGED resultVars
  /\ UNCHANGED <<envVars, fsVars, composeVars, staleVars, svcVars, liveStop,
                 layerVars, stopVars>>
  /\ UNCHANGED <<existingState, abortPc, waited, svcLog, stopLog, stopCalls, waitVars, procVars, unitVars>>

\* checkAborted, then runWorkspaceHook("postInfrastructure")
PostInfrastructure ==
  /\ pc = "postInfra"
  /\ IF aborted
     THEN Reject("OrchestratorError")
     ELSE IF config.hookPostInfrastructure
          THEN \E o \in SignalledOutcomes :
                 IF o = "ok"
                 THEN pc' = "provision" /\ UNCHANGED resultVars
                 ELSE Reject("HookError")
          ELSE pc' = "provision" /\ UNCHANGED resultVars
  /\ UNCHANGED <<envVars, fsVars, composeVars, staleVars, svcVars, liveStop,
                 layerVars, stopVars>>
  /\ UNCHANGED <<existingState, abortPc, waited, svcLog, stopLog, stopCalls, waitVars, procVars, unitVars>>

hasPluginServices(cfg) == \E n \in DOMAIN cfg.services : ~cfg.services[n].builtin

\* runPluginProvisioning: Promise.all over the plugins' provisionInfra
Provision ==
  /\ pc = "provision"
  /\ IF hasPluginServices(config)
     THEN \E o \in Outcomes :
            IF o = "ok"
            THEN pc' = "seed" /\ UNCHANGED resultVars
            ELSE Reject("PluginError")
     ELSE pc' = "seed" /\ UNCHANGED resultVars
  /\ UNCHANGED <<envVars, fsVars, composeVars, staleVars, svcVars, liveStop,
                 layerVars, stopVars>>
  /\ UNCHANGED <<existingState, abortPc, waited, svcLog, stopLog, stopCalls, waitVars, procVars, unitVars>>

\* runPluginSeeding: Promise.all over the plugins' seedData
Seed ==
  /\ pc = "seed"
  /\ IF hasPluginServices(config)
     THEN \E o \in Outcomes :
            IF o = "ok"
            THEN pc' = "layerStart" /\ UNCHANGED resultVars
            ELSE Reject("PluginError")
     ELSE pc' = "layerStart" /\ UNCHANGED resultVars
  /\ UNCHANGED <<envVars, fsVars, composeVars, staleVars, svcVars, liveStop,
                 layerVars, stopVars>>
  /\ UNCHANGED <<existingState, abortPc, waited, svcLog, stopLog, stopCalls, waitVars, procVars, unitVars>>

\* ----------------------------------------------------------- startService
Settled(s) == spc[s] \in {"fulfilled", "rejected"}

\* the non-skip members of layer i, in layer order
layerMembers(i) ==
  SelectSeq(layers[i], LAMBDA n : config.services[n].mode # "skip")

\* the layer a service belongs to
layerOf(s) == CHOOSE i \in 1..Len(layers) : s \in Range(layers[i])

\* the probe left out
afterRunnerNoProbe(s) == "postStart"

\* what follows the runner start
afterRunner(s) == IF config.services[s].readinessProbe THEN "probe" ELSE "postStart"

\* the step e of service s has completed
Logged(s, e) == svcLog' = [svcLog EXCEPT ![s] = @ \o e]

\* runHookIfDefined(preStart)
SvcPreStart(s) ==
  /\ spc[s] = "preStart"
  /\ IF config.services[s].preStart
     THEN \E o \in SignalledOutcomes :
            IF o = "ok"
            THEN /\ spc' = [spc EXCEPT ![s] = "runner"]
                 /\ Logged(s, <<"preStart">>)
                 /\ UNCHANGED rej
            ELSE /\ spc' = [spc EXCEPT ![s] = "rejected"]
                 /\ rej' = [rej EXCEPT ![s] = "HookError"]
                 /\ UNCHANGED svcLog
     ELSE spc' = [spc EXCEPT ![s] = "runner"] /\ UNCHANGED <<rej, svcLog>>
  /\ UNCHANGED <<envVars, pc, fsVars, composeVars, staleVars, probeResult,
                 elapsed, interval, lateFulfil, liveStop, layerVars, resultVars,
                 stopVars>>
  /\ UNCHANGED <<existingState, abortPc, waited, stopLog, stopCalls, waitVars, procVars, unitVars>>

\* the runner branch of startService
SvcRunner(s) ==
  /\ spc[s] = "runner"
  /\ LET r == RunnerOf(config.services[s])
     IN  IF r = "none"
         THEN /\ spc' = [spc EXCEPT ![s] = "rejected"]
              /\ rej' = [rej EXCEPT ![s] = "ServiceStartError"]
              /\ UNCHANGED svcLog
         ELSE IF r = "container"
         THEN \E o \in Outcomes :
                IF o = "ok"
                THEN /\ spc' = [spc EXCEPT ![s] = afterRunner(s)]
                     /\ Logged(s, <<"spawn">>)
                     /\ UNCHANGED rej
                ELSE /\ spc' = [spc EXCEPT ![s] = "rejected"]
                     /\ rej' = [rej EXCEPT ![s] = "ContainerRunnerError"]
                     /\ UNCHANGED svcLog
         ELSE /\ spc' = [spc EXCEPT ![s] = afterRunner(s)]
              /\ Logged(s, <<"spawn">>)
              /\ UNCHANGED rej
  /\ UNCHANGED <<envVars, pc, fsVars, composeVars, staleVars, probeResult,
                 elapsed, interval, lateFulfil, liveStop, layerVars, resultVars,
                 stopVars>>
  /\ UNCHANGED <<existingState, abortPc, waited, stopLog, stopCalls, waitVars, procVars, unitVars>>

\* interval = Math.min(interval * backoff, maxInterval)
nextInterval(i) ==
  LET grown == (i * BACKOFF_NUM) \div BACKOFF_DEN
  IN  IF grown < DEFAULT_MAX_INTERVAL_MS THEN grown ELSE DEFAULT_MAX_INTERVAL_MS

\* Date.now() - start >= timeoutMs
probeTimedOut(e) == e >= DEFAULT_TIMEOUT_MS

\* one iteration of waitForReady's loop; a failed attempt returns at once
\* and the sleep lasts exactly the interval
SvcProbe(s) ==
  /\ spc[s] = "probe"
  /\ IF aborted
     THEN /\ spc' = [spc EXCEPT ![s] = "probeStop"]
          /\ rej' = [rej EXCEPT ![s] = "ReadinessProbeError(aborted)"]
          /\ probeResult' = [probeResult EXCEPT ![s] = "aborted"]
          /\ UNCHANGED <<elapsed, interval, svcLog>>
     ELSE \E o \in Outcomes :
            IF o = "ok"
            THEN /\ spc' = [spc EXCEPT ![s] = "postStart"]
                 /\ Logged(s, <<"ready">>)
                 /\ UNCHANGED <<rej, probeResult, elapsed, interval>>
            ELSE IF probeTimedOut(elapsed[s])
                 THEN /\ spc' = [spc EXCEPT ![s] = "probeStop"]
                      /\ rej' = [rej EXCEPT ![s] = "ReadinessProbeError(timed out)"]
                      /\ probeResult' = [probeResult EXCEPT ![s] = "timed out"]
                      /\ UNCHANGED <<elapsed, interval, svcLog>>
                 ELSE /\ elapsed' = [elapsed EXCEPT ![s] = @ + interval[s]]
                      /\ interval' = [interval EXCEPT ![s] = nextInterval(@)]
                      /\ UNCHANGED <<spc, rej, probeResult, svcLog>>
  /\ UNCHANGED <<envVars, pc, fsVars, composeVars, staleVars, lateFulfil,
                 liveStop, layerVars, resultVars, stopVars>>
  /\ UNCHANGED <<existingState, abortPc, waited, stopLog, stopCalls, waitVars, procVars, unitVars>>

\* the probe failure rethrown without stopping the handle
SvcProbeStopSkipped(s) ==
  /\ spc[s] = "probeStop"
  /\ spc' = [spc EXCEPT ![s] = "rejected"]
  /\ UNCHANGED <<envVars, pc, fsVars, composeVars, staleVars, rej, probeResult,
                 elapsed, interval, lateFulfil, liveStop, layerVars, resultVars, stopVars>>
  /\ UNCHANGED <<existingState, abortPc, waited, svcLog, stopLog, stopCalls, waitVars, procVars, unitVars>>

\* catch (err) { await handle.stop(); throw err; }
SvcProbeStop(s) ==
  /\ spc[s] = "probeStop"
  /\ \E o \in {"ok", "rejected"} :
       /\ liveStop' = [liveStop EXCEPT ![s] = o]
       /\ rej' = [rej EXCEPT ![s] = IF o = "ok" THEN @ ELSE "StopError"]
  /\ spc' = [spc EXCEPT ![s] = "rejected"]
  /\ UNCHANGED <<envVars, pc, fsVars, composeVars, staleVars, probeResult,
                 elapsed, interval, lateFulfil, layerVars, resultVars, stopVars>>
  /\ UNCHANGED <<existingState, abortPc, waited, svcLog, stopLog, stopCalls, waitVars, procVars, unitVars>>

siblingRejected(s) ==
  \E t \in Range(layers[layerOf(s)]) : t # s /\ spc[t] = "rejected"

\* runHookIfDefined(postStart), then return handle; the layer's callback
\* emits `service: started` once startService has returned
SvcPostStart(s) ==
  /\ spc[s] = "postStart"
  /\ IF config.services[s].postStart
     THEN \E o \in SignalledOutcomes :
            IF o = "ok"
            THEN /\ spc' = [spc EXCEPT ![s] = "fulfilled"]
                 /\ lateFulfil' = (lateFulfil \/ siblingRejected(s))
                 /\ Logged(s, <<"postStart", "started">>)
                 /\ UNCHANGED rej
            ELSE /\ spc' = [spc EXCEPT ![s] = "rejected"]
                 /\ rej' = [rej EXCEPT ![s] = "HookError"]
                 /\ UNCHANGED <<lateFulfil, svcLog>>
     ELSE /\ spc' = [spc EXCEPT ![s] = "fulfilled"]
          /\ lateFulfil' = (lateFulfil \/ siblingRejected(s))
          /\ Logged(s, <<"started">>)
          /\ UNCHANGED rej
  /\ UNCHANGED <<envVars, pc, fsVars, composeVars, staleVars, probeResult,
                 elapsed, interval, liveStop, layerVars, resultVars, stopVars>>
  /\ UNCHANGED <<existingState, abortPc, waited, stopLog, stopCalls, waitVars, procVars, unitVars>>

\* ------------------------------------------------- startServicesInLayers
\* the join resolving as soon as one member settles (Promise.race)
layerRaced(members) ==
  Len(members) = 0 \/ \E i \in 1..Len(members) : Settled(members[i])

\* the join rejecting on the first rejection (Promise.all)
layerJoinedAll(members) ==
  \/ \A i \in 1..Len(members) : spc[members[i]] = "fulfilled"
  \/ \E i \in 1..Len(members) : spc[members[i]] = "rejected"

\* Promise.allSettled(layerPromises) resolves
layerJoined(members) == \A i \in 1..Len(members) : Settled(members[i])

fulfilledOf(members) == SelectSeq(members, LAMBDA n : spc[n] = "fulfilled")

rejectedOf(members) == SelectSeq(members, LAMBDA n : spc[n] = "rejected")

\* top of the for loop: checkAborted, then one startService call per member
LayerStart ==
  /\ pc = "layerStart"
  /\ IF layerIdx > Len(layers)
     THEN /\ pc' = "writeFinal"
          /\ UNCHANGED <<spc, tdIdx, resultVars>>
     ELSE IF aborted
          THEN /\ pc' = "teardown"
               /\ err' = "OrchestratorError"
               /\ failPhase' = "layerStart"
               /\ tdIdx' = 1
               /\ UNCHANGED spc
          ELSE /\ spc' = [s \in Services |->
                            IF s \in Range(layerMembers(layerIdx))
                            THEN "preStart" ELSE spc[s]]
               /\ pc' = "layerWait"
               /\ UNCHANGED <<tdIdx, resultVars>>
  /\ UNCHANGED <<envVars, fsVars, composeVars, staleVars, rej, probeResult,
                 elapsed, interval, lateFulfil, liveStop, layerIdx, allHandles,
                 stopVars>>
  /\ UNCHANGED <<existingState, abortPc, waited, svcLog, stopLog, stopCalls, waitVars, procVars, unitVars>>

\* the results loop after the join: collect handles, throw the first failure
LayerJoin ==
  /\ pc = "layerWait"
  /\ layerJoined(layerMembers(layerIdx))
  /\ LET members == layerMembers(layerIdx)
         failed == rejectedOf(members)
     IN  /\ allHandles' = allHandles \o fulfilledOf(members)
         /\ IF Len(failed) > 0
            THEN /\ pc' = "teardown"
                 /\ err' = rej[failed[1]]
                 /\ failPhase' = "layerWait"
                 /\ tdIdx' = 1
                 /\ UNCHANGED layerIdx
            ELSE /\ pc' = "layerStart"
                 /\ layerIdx' = layerIdx + 1
                 /\ UNCHANGED <<tdIdx, resultVars>>
  /\ UNCHANGED <<envVars, fsVars, composeVars, staleVars, svcVars, liveStop,
                 stopVars>>
  /\ UNCHANGED <<existingState, abortPc, waited, svcLog, stopLog, stopCalls, waitVars, procVars, unitVars>>

\* the loop stopping one handle short
teardownPendingShort == tdIdx < Len(allHandles)

\* for (const handle of allHandles): a handle is still to be stopped
teardownPending == tdIdx <= Len(allHandles)

\* the teardown loop without its inner try / catch
TeardownStopNoCatch ==
  /\ pc = "teardown"
  /\ teardownPending
  /\ \E o \in {"ok", "rejected"} :
       /\ liveStop' = [liveStop EXCEPT ![allHandles[tdIdx]] = o]
       /\ IF o = "ok"
          THEN tdIdx' = tdIdx + 1 /\ UNCHANGED <<pc, resultVars>>
          ELSE /\ pc' = "failed"
               /\ err' = "TeardownError"
               /\ UNCHANGED <<tdIdx, failPhase>>
  /\ UNCHANGED <<envVars, fsVars, composeVars, staleVars, svcVars, layerIdx,
                 allHandles, stopVars>>
  /\ UNCHANGED <<existingState, abortPc, waited, svcLog, stopLog, stopCalls, waitVars, procVars, unitVars>>

\* catch (err): try { await handle.stop() } catch {} for each collected handle
TeardownStop ==
  /\ pc = "teardown"
  /\ teardownPending
  /\ \E o \in {"ok", "rejected"} :
       liveStop' = [liveStop EXCEPT ![allHandles[tdIdx]] = o]
  /\ tdIdx' = tdIdx + 1
  /\ UNCHANGED <<envVars, pc, fsVars, composeVars, staleVars, svcVars, layerIdx,
                 allHandles, resultVars, stopVars>>
  /\ UNCHANGED <<existingState, abortPc, waited, svcLog, stopLog, stopCalls, waitVars, procVars, unitVars>>

\* throw err
TeardownRethrow ==
  /\ pc = "teardown"
  /\ ~teardownPending
  /\ pc' = "failed"
  /\ UNCHANGED <<envVars, fsVars, composeVars, staleVars, svcVars, liveStop,
                 layerVars, resultVars, stopVars>>
  /\ UNCHANGED <<existingState, abortPc, waited, svcLog, stopLog, stopCalls, waitVars, procVars, unitVars>>

\* buildServiceState(handles)
buildServiceState(handles) ==
  [n \in Range(handles) |-> RunnerOf(config.services[n])]

WriteFinalState ==
  /\ pc = "writeFinal"
  /\ \E o \in Outcomes :
       IF o = "ok"
       THEN /\ stateFile' = [BaseState EXCEPT !.services = buildServiceState(allHandles)]
            /\ pc' = "postSetup"
            /\ UNCHANGED resultVars
       ELSE Reject("IOError") /\ UNCHANGED stateFile
  /\ UNCHANGED <<envVars, written, composeVars, staleVars, svcVars, liveStop,
                 layerVars, stopVars>>
  /\ UNCHANGED <<existingState, abortPc, waited, svcLog, stopLog, stopCalls, waitVars, procVars, unitVars>>

\* runWorkspaceHook("postSetup"), then return the StartResult
PostSetup ==
  /\ pc = "postSetup"
  /\ IF config.hookPostSetup
     THEN \E o \in SignalledOutcomes :
            IF o = "ok"
            THEN pc' = "done" /\ UNCHANGED resultVars
            ELSE Reject("HookError")
     ELSE pc' = "done" /\ UNCHANGED resultVars
  /\ UNCHANGED <<envVars, fsVars, composeVars, staleVars, svcVars, liveStop,
                 layerVars, stopVars>>
  /\ UNCHANGED <<existingState, abortPc, waited, svcLog, stopLog, stopCalls, waitVars, procVars, unitVars>>

\* ----------------------------------------------------------- stopWorkspace
\* an entry of stopLog: a call made or a phase emitted, and the handle it
\* is about (0 when it is about none)
Ev(e, h) == [e |-> e, h |-> h]

\* stopWorkspace is called after a successful start, with the in-memory
\* handles or without them, and again after it has returned
StopWorkspaceCall ==
  /\ pc \in {"done", "stopped", "noWorkspace"}
  /\ stopCalls < MaxStopCalls
  /\ stopCalls' = stopCalls + 1
  /\ stopHandles' \in {"live", "hydrated"}
  /\ stopIdx' = 1
  /\ stopLog' = Append(stopLog, Ev("call", 0))
  /\ pc' = "sReadState"
  /\ UNCHANGED <<envVars, fsVars, composeVars, staleVars, svcVars, liveStop,
                 layerVars, resultVars, hydStop, stopErr>>
  /\ UNCHANGED <<existingState, abortPc, waited, svcLog, waitVars, procVars, unitVars>>

\* the missing state file reported, and the stop going on all the same
StopReadStateNoReturn ==
  /\ pc = "sReadState"
  /\ IF stateFile.present
     THEN pc' = "sPreStop" /\ UNCHANGED stopLog
     ELSE /\ pc' = "sRemove"
          /\ stopLog' = Append(stopLog, Ev("No running workspace found", 0))
  /\ UNCHANGED <<envVars, fsVars, composeVars, staleVars, svcVars, liveStop,
                 layerVars, resultVars, stopVars>>
  /\ UNCHANGED <<existingState, abortPc, waited, svcLog, stopCalls, waitVars, procVars, unitVars>>

StopReadState ==
  /\ pc = "sReadState"
  /\ IF stateFile.present
     THEN pc' = "sPreStop" /\ UNCHANGED stopLog
     ELSE /\ pc' = "noWorkspace"
          /\ stopLog' = Append(stopLog, Ev("No running workspace found", 0))
  /\ UNCHANGED <<envVars, fsVars, composeVars, staleVars, svcVars, liveStop,
                 layerVars, resultVars, stopVars>>
  /\ UNCHANGED <<existingState, abortPc, waited, svcLog, stopCalls, waitVars, procVars, unitVars>>

\* loadConfig (a failure leaves config null), then the preStop hook if set
StopPreStop ==
  /\ pc = "sPreStop"
  /\ \E lc \in Outcomes :
       IF lc = "ok" /\ config.hookPreStop
       THEN \E o \in Outcomes :
              IF o = "ok"
              THEN /\ pc' = "sHandles"
                   /\ stopLog' = Append(stopLog, Ev("preStop", 0))
                   /\ UNCHANGED stopErr
              ELSE /\ pc' = "stopFailed"
                   /\ stopErr' = "HookError"
                   /\ UNCHANGED stopLog
       ELSE pc' = "sHandles" /\ UNCHANGED <<stopErr, stopLog>>
  /\ UNCHANGED <<envVars, fsVars, composeVars, staleVars, svcVars, liveStop,
                 layerVars, resultVars, stopHandles, stopIdx, hydStop>>
  /\ UNCHANGED <<existingState, abortPc, waited, svcLog, stopCalls, waitVars, procVars, unitVars>>

\* options.handles ?? hydrateHandles(state)
stopTargets == IF stopHandles = "live" THEN allHandles ELSE hydrateHandles(stateFile)

\* for (const handle of handles) await handle.stop()
StopHandle ==
  /\ pc = "sHandles"
  /\ stopIdx <= Len(stopTargets)
  /\ LET h == stopTargets[stopIdx]
     IN  IF stopHandles = "live"
         THEN \E o \in {"ok", "rejected"} :
                /\ liveStop' = [liveStop EXCEPT ![h] = o]
                /\ IF o = "ok"
                   THEN /\ pc' = pc
                        /\ stopIdx' = stopIdx + 1
                        /\ stopLog' = Append(stopLog, Ev("stop", h))
                        /\ UNCHANGED stopErr
                   ELSE /\ pc' = "stopFailed"
                        /\ stopErr' = "StopError"
                        /\ UNCHANGED <<stopIdx, stopLog>>
                /\ UNCHANGED hydStop
         ELSE /\ hydStop' = hydStop \cup {h}
              /\ stopIdx' = stopIdx + 1
              /\ stopLog' = Append(stopLog, Ev("stop", h))
              /\ UNCHANGED <<pc, liveStop, stopErr>>
  /\ UNCHANGED <<envVars, fsVars, composeVars, staleVars, svcVars, layerVars,
                 resultVars, stopHandles>>
  /\ UNCHANGED <<existingState, abortPc, waited, svcLog, stopCalls, waitVars, procVars, unitVars>>

\* composeDown run while a handle is still to be stopped
StopComposeDownEarly ==
  /\ pc = "sHandles"
  /\ composeDownCalls' = Append(composeDownCalls, stateFile.projectName)
  /\ stopLog' = Append(stopLog, Ev("composeDown", 0))
  /\ \E o \in Outcomes :
       IF o = "ok"
       THEN pc' = "sRemove" /\ UNCHANGED stopErr
       ELSE pc' = "stopFailed" /\ stopErr' = "ComposeExecError"
  /\ UNCHANGED <<envVars, fsVars, composeUpCalled, logsHandle, staleVars, svcVars,
                 liveStop, layerVars, resultVars, stopHandles, stopIdx, hydStop>>
  /\ UNCHANGED <<existingState, abortPc, waited, svcLog, stopCalls, waitVars, procVars, unitVars>>

\* a failure of composeDown noted and the stop going on to removeState
StopComposeDownLenient ==
  /\ pc = "sHandles"
  /\ stopIdx > Len(stopTargets)
  /\ composeDownCalls' = Append(composeDownCalls, stateFile.projectName)
  /\ stopLog' = Append(stopLog, Ev("composeDown", 0))
  /\ pc' = "sRemove"
  /\ \E o \in Outcomes :
       stopErr' = IF o = "ok" THEN stopErr ELSE "ComposeExecError"
  /\ UNCHANGED <<envVars, fsVars, composeUpCalled, logsHandle, staleVars, svcVars,
                 liveStop, layerVars, resultVars, stopHandles, stopIdx, hydStop>>
  /\ UNCHANGED <<existingState, abortPc, waited, svcLog, stopCalls, waitVars, procVars, unitVars>>

StopComposeDown ==
  /\ pc = "sHandles"
  /\ stopIdx > Len(stopTargets)
  /\ composeDownCalls' = Append(composeDownCalls, stateFile.projectName)
  /\ stopLog' = Append(stopLog, Ev("composeDown", 0))
  /\ \E o \in Outcomes :
       IF o = "ok"
       THEN pc' = "sRemove" /\ UNCHANGED stopErr
       ELSE pc' = "stopFailed" /\ stopErr' = "ComposeExecError"
  /\ UNCHANGED <<envVars, fsVars, composeUpCalled, logsHandle, staleVars, svcVars,
                 liveStop, layerVars, resultVars, stopHandles, stopIdx, hydStop>>
  /\ UNCHANGED <<existingState, abortPc, waited, svcLog, stopCalls, waitVars, procVars, unitVars>>

\* the stop clearing the hosts block as well
StopRemoveStateAndHosts ==
  /\ pc = "sRemove"
  /\ stateFile' = removeState(stateFile)
  /\ written' = written \ {"hosts"}
  /\ stopLog' = stopLog \o <<Ev("removeState", 0), Ev("Stopped", 0)>>
  /\ pc' = "stopped"
  /\ UNCHANGED <<envVars, composeVars, staleVars, svcVars, liveStop,
                 layerVars, resultVars, stopVars>>
  /\ UNCHANGED <<existingState, abortPc, waited, svcLog, stopCalls, waitVars, procVars, unitVars>>

StopRemoveState ==
  /\ pc = "sRemove"
  /\ stateFile' = removeState(stateFile)
  /\ stopLog' = stopLog \o <<Ev("removeState", 0), Ev("Stopped", 0)>>
  /\ pc' = "stopped"
  /\ UNCHANGED <<envVars, written, composeVars, staleVars, svcVars, liveStop,
                 layerVars, resultVars, stopVars>>
  /\ UNCHANGED <<existingState, abortPc, waited, svcLog, stopCalls, waitVars, procVars, unitVars>>

\* ------------------------------------------------------------- composeWait
\* what `docker compose ps` reports of a service
Status(state, health, exitCode) ==
  [State |-> state, Health |-> health, ExitCode |-> exitCode]

\* the statuses docker reports: a health only while running, an exit code
\* only once the container has stopped at least once
Statuses ==
  {Status("running", h, 0) : h \in {"", "healthy", "starting", "unhealthy"}}
    \cup {Status(s, "", c) : s \in {"exited", "restarting", "dead"}, c \in {0, 1}}
    \cup {Status("created", "", 0)}

\* composePs: a status for some of the project's services
PsOutputs == UNION {[D -> Statuses] : D \in SUBSET WaitNames}

\* one pass of the loop body over a target service, without the init-task
\* branch
verdictNoMustExit(statusByService, service, mustExit) ==
  IF service \notin DOMAIN statusByService THEN "pending"
  ELSE LET status == statusByService[service]
       IN  IF status.State = "running"
           THEN IF status.Health = "unhealthy" THEN "throw"
                ELSE IF status.Health = "starting" THEN "pending"
                ELSE "ready"
           ELSE IF status.State = "exited"
           THEN IF status.ExitCode # 0 THEN "throw" ELSE "ready"
           ELSE "pending"

\* one pass of the loop body over a target service
verdict(statusByService, service, mustExit) ==
  IF service \notin DOMAIN statusByService THEN "pending"
  ELSE LET status == statusByService[service]
       IN  IF status.State = "running"
           THEN IF status.Health = "unhealthy" THEN "throw"
                ELSE IF status.Health = "starting" THEN "pending"
                ELSE IF service \in mustExit THEN "pending"
                ELSE "ready"
           ELSE IF status.State = "exited"
           THEN IF status.ExitCode # 0 THEN "throw" ELSE "ready"
           ELSE "pending"

\* the caller trips the signal
WaitAbort ==
  /\ wpc \in {"called", "poll", "pending"}
  /\ ~wSignal
  /\ wSignal' = TRUE
  /\ UNCHANGED <<wServices, wMustExit, wTimeout, wpc, wStatuses, wNow, wPolls, wErr, wMsg>>
  /\ UNCHANGED <<orchVars, procVars, unitVars>>

\* if (targetServices.size === 0) return
WaitEnter ==
  /\ wpc = "called"
  /\ wpc' = IF wServices = {} THEN "resolved" ELSE "poll"
  /\ UNCHANGED <<wServices, wMustExit, wTimeout, wSignal, wStatuses, wNow, wPolls, wErr, wMsg>>
  /\ UNCHANGED <<orchVars, procVars, unitVars>>

\* the head of the loop: the signal check, composePs (which may fail), the
\* pass over the targets
WaitPoll ==
  /\ wpc = "poll"
  /\ IF wSignal
     THEN /\ wpc' = "failed"
          /\ wErr' = "aborted"
          /\ UNCHANGED <<wStatuses, wPolls>>
     ELSE \/ /\ wpc' = "failed"
             /\ wErr' = "ps"
             /\ wPolls' = wPolls + 1
             /\ UNCHANGED wStatuses
          \/ \E ps \in PsOutputs :
               LET v == [s \in wServices |-> verdict(ps, s, wMustExit)]
               IN  /\ wStatuses' = ps
                   /\ wPolls' = wPolls + 1
                   /\ IF \E s \in wServices : v[s] = "throw"
                      THEN wpc' = "failed" /\ wErr' = "status"
                      ELSE IF \A s \in wServices : v[s] = "ready"
                      THEN wpc' = "resolved" /\ UNCHANGED wErr
                      ELSE wpc' = "pending" /\ UNCHANGED wErr
  /\ UNCHANGED <<wServices, wMustExit, wTimeout, wSignal, wNow, wMsg>>
  /\ UNCHANGED <<orchVars, procVars, unitVars>>

\* pending.push: the note a target is listed with, "" for a target that
\* is not listed; targets that docker does not report are left out
pendingNoteFoundOnly(statusByService, service, mustExit) ==
  IF service \notin DOMAIN statusByService THEN ""
  ELSE LET status == statusByService[service]
       IN  IF status.State = "running"
           THEN IF status.Health = "starting" THEN "health: starting"
                ELSE IF status.Health # "unhealthy" /\ service \in mustExit
                THEN "waiting to exit"
                ELSE ""
           ELSE IF status.State = "exited" THEN ""
           ELSE status.State

\* pending.push: the note a target is listed with, "" for a target that
\* is not listed
pendingNote(statusByService, service, mustExit) ==
  IF service \notin DOMAIN statusByService THEN "not found"
  ELSE LET status == statusByService[service]
       IN  IF status.State = "running"
           THEN IF status.Health = "starting" THEN "health: starting"
                ELSE IF status.Health # "unhealthy" /\ service \in mustExit
                THEN "waiting to exit"
                ELSE ""
           ELSE IF status.State = "exited" THEN ""
           ELSE status.State

\* the pending list of the last pass
pendingList(statusByService, services, mustExit) ==
  {[service |-> s, note |-> pendingNote(statusByService, s, mustExit)] :
     s \in {t \in services : pendingNote(statusByService, t, mustExit) # ""}}

\* the timeout check, then the sleep of one poll interval
WaitSleep ==
  /\ wpc = "pending"
  /\ IF wNow > wTimeout
     THEN /\ wpc' = "failed"
          /\ wErr' = "timeout"
          /\ wMsg' = pendingList(wStatuses, wServices, wMustExit)
          /\ UNCHANGED <<wStatuses, wNow>>
     ELSE /\ wpc' = "poll"
          /\ wNow' = wNow + DEFAULT_POLL_INTERVAL
          /\ wStatuses' = <<>>
          /\ UNCHANGED <<wErr, wMsg>>
  /\ UNCHANGED <<wServices, wMustExit, wTimeout, wSignal, wPolls>>
  /\ UNCHANGED <<orchVars, procVars, unitVars>>

\* the orchestrator before startWorkspace is called
OrchIdle ==
  /\ config = CHOOSE c \in Configs : c.name = "chain"
  /\ pc = "readState"
  /\ aborted = FALSE
  /\ abortedAfterStart = FALSE
  /\ stateFile = NoState
  /\ written = {}
  /\ composeUpCalled = {}
  /\ composeDownCalls = <<>>
  /\ logsHandle = "none"
  /\ staleIdx = 1
  /\ staleStopped = {}
  /\ layerIdx = 1
  /\ spc = [s \in Services |-> "idle"]
  /\ rej = [s \in Services |-> "none"]
  /\ probeResult = [s \in Services |-> "none"]
  /\ elapsed = [s \in Services |-> 0]
  /\ interval = [s \in Services |-> DEFAULT_INTERVAL_MS]
  /\ liveStop = [s \in Services |-> "none"]
  /\ allHandles = <<>>
  /\ tdIdx = 1
  /\ err = "none"
  /\ failPhase = "none"
  /\ lateFulfil = FALSE
  /\ stopHandles = "none"
  /\ stopIdx = 1
  /\ hydStop = {}
  /\ stopErr = "none"
  /\ existingState = NoState
  /\ abortPc = "none"
  /\ waited = {}
  /\ svcLog = [s \in Services |-> <<>>]
  /\ stopLog = <<>>
  /\ stopCalls = 0

\* composeWait called with its options
WaitInit ==
  /\ OrchIdle
  /\ ProcIdle
  /\ UnitIdle
  /\ wServices \in SUBSET WaitNames
  /\ wMustExit \in SUBSET WaitNames
  /\ wTimeout \in WaitTimeouts
  /\ wSignal = FALSE
  /\ wpc = "called"
  /\ wStatuses = <<>>
  /\ wNow = 0
  /\ wPolls = 0
  /\ wErr = "none"
  /\ wMsg = {}

WaitNext ==
  \/ WaitAbort
  \/ WaitEnter
  \/ WaitPoll
  \/ WaitSleep

WaitSpec == WaitInit /\ [][WaitNext]_vars

\* composeWait keeps running: its promise chain and its timers are served
WaitLiveSpec == WaitSpec /\ WF_vars(WaitNext)

\* ----------------------------------------------------------- startProcess
\* the child's `error` event: the spawn failed
ChildError ==
  /\ child = "spawnFailed"
  /\ child' = "errored"
  /\ isRunning' = FALSE
  /\ exitPromise' = "null"
  /\ IF ppc = "awaiting"
     THEN /\ ppc' = "resolved"
          /\ stopResult' = "null"
          /\ timer' = IF timer = "armed" THEN "cleared" ELSE timer
     ELSE UNCHANGED <<ppc, stopResult, timer>>
  /\ UNCHANGED <<platform, timeoutMs, heedsTerm, kills, clock>>
  /\ UNCHANGED <<orchVars, waitVars, unitVars>>

\* the exit codes `close` can deliver now: the command's own, or null once a
\* signal it does not survive has been sent
closeCodes ==
  {"0", "1"} \cup
    (IF \E i \in 1..Len(kills) : kills[i] = "SIGKILL" \/ (kills[i] = "SIGTERM" /\ heedsTerm)
     THEN {"null"} ELSE {})

\* the child's `close` event; a pending stop() resumes on exitPromise in the
\* same turn, clears its timer and returns the code
ChildClose ==
  /\ child = "running"
  /\ \E code \in closeCodes :
       /\ exitPromise' = code
       /\ IF ppc = "awaiting"
          THEN /\ ppc' = "resolved"
               /\ stopResult' = code
               /\ timer' = IF timer = "armed" THEN "cleared" ELSE timer
          ELSE UNCHANGED <<ppc, stopResult, timer>>
  /\ child' = "closed"
  /\ isRunning' = FALSE
  /\ UNCHANGED <<platform, timeoutMs, heedsTerm, kills, clock>>
  /\ UNCHANGED <<orchVars, waitVars, unitVars>>

\* stop() sending the forced kill at once on every platform
StopCallKillsAtOnce ==
  /\ ppc = "idle"
  /\ IF ~isRunning
     THEN /\ ppc' = "resolved"
          /\ stopResult' = exitPromise
          /\ UNCHANGED <<kills, timer>>
     ELSE /\ kills' = Append(kills, "SIGKILL")
          /\ ppc' = "awaiting"
          /\ UNCHANGED <<timer, stopResult>>
  /\ UNCHANGED <<platform, timeoutMs, heedsTerm, child, isRunning, exitPromise, clock>>
  /\ UNCHANGED <<orchVars, waitVars, unitVars>>

\* stop(timeoutMs) up to its first await
StopCall ==
  /\ ppc = "idle"
  /\ IF ~isRunning
     THEN /\ ppc' = "resolved"
          /\ stopResult' = exitPromise
          /\ UNCHANGED <<kills, timer>>
     ELSE IF platform = "win32"
     THEN /\ kills' = Append(kills, "SIGKILL")
          /\ ppc' = "awaiting"
          /\ UNCHANGED <<timer, stopResult>>
     ELSE /\ kills' = Append(kills, "SIGTERM")
          /\ timer' = "armed"
          /\ ppc' = "awaiting"
          /\ UNCHANGED stopResult
  /\ UNCHANGED <<platform, timeoutMs, heedsTerm, child, isRunning, exitPromise, clock>>
  /\ UNCHANGED <<orchVars, waitVars, unitVars>>

\* time passes while the timer is armed
Tick ==
  /\ timer = "armed"
  /\ clock < timeoutMs
  /\ clock' = clock + TickMs
  /\ UNCHANGED <<platform, timeoutMs, heedsTerm, child, isRunning, exitPromise, kills,
                 timer, ppc, stopResult>>
  /\ UNCHANGED <<orchVars, waitVars, unitVars>>

\* the timer's callback: if (isRunning) child.kill("SIGKILL")
TimerFire ==
  /\ timer = "armed"
  /\ clock >= timeoutMs
  /\ timer' = "fired"
  /\ kills' = IF isRunning THEN Append(kills, "SIGKILL") ELSE kills
  /\ UNCHANGED <<platform, timeoutMs, heedsTerm, child, isRunning, exitPromise, clock,
                 ppc, stopResult>>
  /\ UNCHANGED <<orchVars, waitVars, unitVars>>

\* startProcess has returned a handle
ProcInit ==
  /\ OrchIdle
  /\ WaitIdle
  /\ UnitIdle
  /\ platform \in {"posix", "win32"}
  /\ timeoutMs \in StopTimeouts
  /\ heedsTerm \in BOOLEAN
  /\ child \in {"running", "spawnFailed"}
  /\ isRunning = TRUE
  /\ exitPromise = "pending"
  /\ kills = <<>>
  /\ timer = "none"
  /\ clock = 0
  /\ ppc = "idle"
  /\ stopResult = "pending"

ProcNext ==
  \/ ChildError
  \/ ChildClose
  \/ StopCall
  \/ Tick
  \/ TimerFire

ProcSpec == ProcInit /\ [][ProcNext]_vars

\* -------------------------------------------------------- startContainer
\* the variables of everything but the container handle
exceptCont == <<orchVars, waitVars, procVars, readyVars, dagVars, filterVars, hostsVars, tlsVars, svcEnvVars, regVars, upVars, hydVars>>

\* Math.ceil(timeoutMs / 1000)
ceilSeconds(ms) == (ms + 999) \div 1000

\* the -t argument of `docker stop`
stopTimeoutArg ==
  IF cTimeoutMs = NoTimeoutGiven
  THEN IF cHydrated THEN ceilSeconds(HYDRATED_STOP_TIMEOUT_MS)
       ELSE DEFAULT_STOP_TIMEOUT_SEC
  ELSE ceilSeconds(cTimeoutMs)

\* the ways `docker stop` can end: it cannot succeed on a container that
\* is gone, and the daemon may fail it at any time
dockerStopOutcomes == IF cContainer = "removed" THEN {FALSE} ELSE BOOLEAN

\* the ways `docker rm` can end: it removes only a container that exists
\* and is not running
dockerRmOutcomes == IF cContainer = "exited" THEN BOOLEAN ELSE {FALSE}

CmdEv(cmd, arg, ok) == [cmd |-> cmd, arg |-> arg, ok |-> ok]

\* the container exits or is removed behind the handle's back
ContainerGone ==
  /\ cContainer # "removed"
  /\ cContainer' \in {"exited", "removed"} \ {cContainer}
  /\ UNCHANGED <<cHydrated, cTimeoutMs, cLogChild, cIsRunning, cLog, cpc>>
  /\ UNCHANGED exceptCont

\* the log follower's `close` event: `docker logs -f` ends with its container
LogChildClose ==
  /\ cLogChild = "running"
  /\ cContainer # "running"
  /\ cLogChild' = "closed"
  /\ cIsRunning' = FALSE
  /\ UNCHANGED <<cHydrated, cTimeoutMs, cContainer, cLog, cpc>>
  /\ UNCHANGED exceptCont

\* stop(timeoutMs) is called
ContStopCall ==
  /\ cpc = "idle"
  /\ cpc' = "stop"
  /\ UNCHANGED <<cHydrated, cTimeoutMs, cContainer, cLogChild, cIsRunning, cLog>>
  /\ UNCHANGED exceptCont

\* `docker stop` whose failure is not caught
ContDockerStopNoCatch ==
  /\ cpc = "stop"
  /\ \E ok \in dockerStopOutcomes :
       /\ cLog' = Append(cLog, CmdEv("stop", stopTimeoutArg, ok))
       /\ cContainer' = IF ok THEN "exited" ELSE cContainer
       /\ cpc' = IF ok THEN "rm" ELSE "rejected"
  /\ UNCHANGED <<cHydrated, cTimeoutMs, cLogChild, cIsRunning>>
  /\ UNCHANGED exceptCont

\* try { await exec("docker", ["stop", "-t", timeout, name]) } catch {}
ContDockerStop ==
  /\ cpc = "stop"
  /\ \E ok \in dockerStopOutcomes :
       /\ cLog' = Append(cLog, CmdEv("stop", stopTimeoutArg, ok))
       /\ cContainer' = IF ok THEN "exited" ELSE cContainer
  /\ cpc' = "rm"
  /\ UNCHANGED <<cHydrated, cTimeoutMs, cLogChild, cIsRunning>>
  /\ UNCHANGED exceptCont

\* try { await exec("docker", ["rm", name]) } catch {}, then, on a live
\* handle, logChild.kill() and isRunning = false
ContDockerRm ==
  /\ cpc = "rm"
  /\ \E ok \in dockerRmOutcomes :
       /\ cLog' = Append(cLog, CmdEv("rm", 0, ok))
                    \o (IF cHydrated THEN <<>> ELSE <<CmdEv("kill", 0, TRUE)>>)
       /\ cContainer' = IF ok THEN "removed" ELSE cContainer
  /\ cLogChild' = IF cLogChild = "running" THEN "killed" ELSE cLogChild
  /\ cIsRunning' = IF cHydrated THEN cIsRunning ELSE FALSE
  /\ cpc' = "resolved"
  /\ UNCHANGED <<cHydrated, cTimeoutMs>>
  /\ UNCHANGED exceptCont

\* startContainer or hydrateHandle has returned a handle
ContInit ==
  /\ OrchIdle
  /\ WaitIdle
  /\ ProcIdle
  /\ ReadyIdle
  /\ DagIdle
  /\ FilterIdle
  /\ HostsIdle
  /\ TlsIdle
  /\ EnvIdle
  /\ RegIdle
  /\ UpIdle
  /\ HydIdle
  /\ cHydrated \in BOOLEAN
  /\ cTimeoutMs \in ContStopTimeouts
  /\ cContainer \in {"running", "exited", "removed"}
  /\ cLogChild = IF cHydrated THEN "none" ELSE "running"
  /\ cIsRunning = TRUE
  /\ cLog = <<>>
  /\ cpc = "idle"

ContNext ==
  \/ ContainerGone
  \/ LogChildClose
  \/ ContStopCall
  \/ ContDockerStop
  \/ ContDockerRm

ContSpec == ContInit /\ [][ContNext]_vars

\* ----------------------------------------------------------- waitForReady
\* the variables of everything but waitForReady
exceptReady == <<orchVars, waitVars, procVars, contVars, dagVars, filterVars, hostsVars, tlsVars, svcEnvVars, regVars, upVars, hydVars>>

\* Math.min(interval * backoff, maxInterval)
backedOff(i, backoff, maxInterval) ==
  LET scaled == (i * backoff[1]) \div backoff[2]
  IN  IF scaled < maxInterval THEN scaled ELSE maxInterval

\* the signal trips
ReadyAbort ==
  /\ rpc \in {"loop", "fetching", "sleeping"}
  /\ ~rSignal
  /\ rSignal' = TRUE
  /\ rAbortPc' = rpc
  /\ UNCHANGED <<rTimeoutMs, rIntervalMs, rBackoff, rMaxInterval, rNow, rInterval,
                 rReason, rpc>>
  /\ UNCHANGED exceptReady

\* the head of the loop without its signal check
ReadyLoopHeadNoCheck ==
  /\ rpc = "loop"
  /\ rpc' = "fetching"
  /\ UNCHANGED <<rTimeoutMs, rIntervalMs, rBackoff, rMaxInterval, rSignal, rNow,
                 rInterval, rReason, rAbortPc>>
  /\ UNCHANGED exceptReady

\* the head of the loop: the signal check, then the fetch is issued
ReadyLoopHead ==
  /\ rpc = "loop"
  /\ IF rSignal
     THEN /\ rpc' = "thrown"
          /\ rReason' = "aborted"
     ELSE /\ rpc' = "fetching"
          /\ UNCHANGED rReason
  /\ UNCHANGED <<rTimeoutMs, rIntervalMs, rBackoff, rMaxInterval, rSignal, rNow,
                 rInterval, rAbortPc>>
  /\ UNCHANGED exceptReady

\* the fetch settles, within its 5 s inner timeout: return on a 2xx status,
\* otherwise throw if timeoutMs has passed, otherwise go to sleep
ReadyFetchDone ==
  /\ rpc = "fetching"
  /\ \E d \in FetchDurations, ok \in BOOLEAN :
       /\ d = FETCH_TIMEOUT_MS => ~ok
       /\ rNow' = rNow + d
       /\ IF ok
          THEN /\ rpc' = "returned"
               /\ UNCHANGED rReason
          ELSE IF rNow' >= rTimeoutMs
          THEN /\ rpc' = "thrown"
               /\ rReason' = "timeout"
          ELSE /\ rpc' = "sleeping"
               /\ UNCHANGED rReason
  /\ UNCHANGED <<rTimeoutMs, rIntervalMs, rBackoff, rMaxInterval, rSignal, rInterval,
                 rAbortPc>>
  /\ UNCHANGED exceptReady

\* the sleep ends; the interval backs off
ReadySleepDone ==
  /\ rpc = "sleeping"
  /\ rNow' = rNow + rInterval
  /\ rInterval' = backedOff(rInterval, rBackoff, rMaxInterval)
  /\ rpc' = "loop"
  /\ UNCHANGED <<rTimeoutMs, rIntervalMs, rBackoff, rMaxInterval, rSignal, rReason,
                 rAbortPc>>
  /\ UNCHANGED exceptReady

\* waitForReady called with its options
ReadyInit ==
  /\ OrchIdle
  /\ WaitIdle
  /\ ProcIdle
  /\ ContIdle
  /\ DagIdle
  /\ FilterIdle
  /\ HostsIdle
  /\ TlsIdle
  /\ EnvIdle
  /\ RegIdle
  /\ UpIdle
  /\ HydIdle
  /\ rTimeoutMs \in ReadyTimeouts
  /\ rIntervalMs \in ReadyIntervals
  /\ rBackoff \in ReadyBackoffs
  /\ rMaxInterval \in ReadyMaxIntervals
  /\ rSignal = FALSE
  /\ rNow = 0
  /\ rInterval = rIntervalMs
  /\ rReason = "none"
  /\ rAbortPc = "none"
  /\ rpc = "loop"

ReadyNext ==
  \/ ReadyAbort
  \/ ReadyLoopHead
  \/ ReadyFetchDone
  \/ ReadySleepDone

ReadySpec == ReadyInit /\ [][ReadyNext]_vars

\* --------------------------------------------------------------- buildDag
\* the variables of everything but buildDag
exceptDag == <<orchVars, waitVars, procVars, contVars, readyVars, filterVars, hostsVars, tlsVars, svcEnvVars, regVars, upVars, hydVars>>

\* the first (service, dep) pair, in iteration order, whose dep is not a
\* service of the manifest; <<>> when every reference resolves
RECURSIVE unknownRef(_, _, _, _)
unknownRef(names, deps, i, j) ==
  IF i > Len(names) THEN <<>>
  ELSE IF j > Len(deps[names[i]]) THEN unknownRef(names, deps, i + 1, 1)
  ELSE IF deps[names[i]][j] \notin Range(names) THEN <<names[i], deps[names[i]][j]>>
  ELSE unknownRef(names, deps, i, j + 1)

WHITE == 0
GRAY == 1
BLACK == 2

\* parent.get(n) of a node no parent was set for
NoParent == 0

RECURSIVE climb(_, _, _)
\* the reconstruction without its walk up the parents
climbNone(current, dep, parent) == <<>>

\* the while loop of the reconstruction: the parents from `current` up to,
\* and without, `dep`
climb(current, dep, parent) ==
  IF current = NoParent \/ current = dep THEN <<>>
  ELSE <<current>> \o climb(parent[current], dep, parent)

Reverse(q) == [i \in 1..Len(q) |-> q[Len(q) + 1 - i]]

\* the path of the message: cycle.reverse() joined by arrows, then dep
cyclePath(dep, node, parent) ==
  Reverse(<<dep, node>> \o climb(parent[node], dep, parent)) \o <<dep>>

RECURSIVE dfsDeps(_, _, _, _)
RECURSIVE dfs(_, _, _)
\* the loop of dfs over node's dependsOn, from its i-th entry on; st.thrown
\* is the path of the DagError thrown, <<>> while none was
dfsDeps(node, i, deps, st) ==
  IF st.thrown # <<>> THEN st
  ELSE IF i > Len(deps[node]) THEN [st EXCEPT !.color[node] = BLACK]
  ELSE LET dep == deps[node][i]
       IN  IF st.color[dep] = GRAY
           THEN [st EXCEPT !.thrown = cyclePath(dep, node, st.parent)]
           ELSE IF st.color[dep] = WHITE
           THEN dfsDeps(node, i + 1, deps,
                        dfs(dep, deps, [st EXCEPT !.parent[dep] = node]))
           ELSE dfsDeps(node, i + 1, deps, st)

dfs(node, deps, st) == dfsDeps(node, 1, deps, [st EXCEPT !.color[node] = GRAY])

RECURSIVE detectFrom(_, _, _, _)
\* the loop of detectCycles over the services, from the i-th on
detectFrom(names, i, deps, st) ==
  IF st.thrown # <<>> \/ i > Len(names) THEN st
  ELSE IF st.color[names[i]] = WHITE
  THEN detectFrom(names, i + 1, deps, dfs(names[i], deps, st))
  ELSE detectFrom(names, i + 1, deps, st)

\* the path of the cycle detectCycles throws with, <<>> when it returns
detectCycles(names, deps) ==
  detectFrom(names, 1, deps,
             [color |-> [n \in Range(names) |-> WHITE],
              parent |-> [n \in Range(names) |-> NoParent],
              thrown |-> <<>>]).thrown

RECURSIVE sorted(_)
\* Array.prototype.sort on names
sorted(q) ==
  IF q = <<>> THEN <<>>
  ELSE LET k == CHOOSE i \in 1..Len(q) : \A j \in 1..Len(q) : q[i] <= q[j]
       IN  <<q[k]>> \o sorted([i \in 1..(Len(q) - 1) |-> IF i < k THEN q[i] ELSE q[i + 1]])

RECURSIVE occurrences(_, _)
\* how many entries of q are x
occurrences(q, x) ==
  IF q = <<>> THEN 0
  ELSE (IF Head(q) = x THEN 1 ELSE 0) + occurrences(Tail(q), x)

RECURSIVE repeated(_, _)
repeated(x, k) == IF k = 0 THEN <<>> ELSE <<x>> \o repeated(x, k - 1)

RECURSIVE dependentsOf(_, _, _, _)
\* dependents.get(dep): one entry per occurrence of dep in a dependsOn
\* list, the services taken in insertion order
dependentsOf(dep, names, deps, i) ==
  IF i > Len(names) THEN <<>>
  ELSE repeated(names[i], occurrences(deps[names[i]], dep))
         \o dependentsOf(dep, names, deps, i + 1)

RECURSIVE flatDependents(_, _, _)
\* the dependents of the members of a layer, in the order the loops visit them
flatDependents(layer, names, deps) ==
  IF layer = <<>> THEN <<>>
  ELSE dependentsOf(Head(layer), names, deps, 1)
         \o flatDependents(Tail(layer), names, deps)

RECURSIVE peelEarly(_, _)
RECURSIVE peel(_, _)
\* a dependent is enqueued while it still waits for one dependency
peelEarly(visit, acc) ==
  IF visit = <<>> THEN acc
  ELSE LET d == Head(visit)
           newDegree == acc.inDegree[d] - 1
       IN  peelEarly(Tail(visit),
                     [inDegree |-> [acc.inDegree EXCEPT ![d] = newDegree],
                      nextLayer |-> IF newDegree <= 1 /\ d \notin Range(acc.nextLayer)
                                    THEN Append(acc.nextLayer, d)
                                    ELSE acc.nextLayer])

\* the decrements of one layer: a dependent whose in-degree reaches zero is
\* pushed on the next layer
peel(visit, acc) ==
  IF visit = <<>> THEN acc
  ELSE LET d == Head(visit)
           newDegree == acc.inDegree[d] - 1
       IN  peel(Tail(visit),
                [inDegree |-> [acc.inDegree EXCEPT ![d] = newDegree],
                 nextLayer |-> IF newDegree = 0
                               THEN Append(acc.nextLayer, d)
                               ELSE acc.nextLayer])

RECURSIVE kahn(_, _, _, _)
\* the while loop of buildDag: the layers pushed from currentLayer on
kahn(currentLayer, inDegree, names, deps) ==
  IF currentLayer = <<>> THEN <<>>
  ELSE LET acc == peel(flatDependents(currentLayer, names, deps),
                       [inDegree |-> inDegree, nextLayer |-> <<>>])
       IN  <<currentLayer>> \o kahn(sorted(acc.nextLayer), acc.inDegree, names, deps)

RECURSIVE lengths(_)
\* the total length of the layers
lengths(ls) == IF ls = <<>> THEN 0 ELSE Len(Head(ls)) + lengths(Tail(ls))

\* buildDag(config): the layers, or the DagError thrown
buildDagResult(names, deps) ==
  LET bad == unknownRef(names, deps, 1, 1)
      cycle == detectCycles(names, deps)
      inDegree == [n \in Range(names) |-> Len(deps[n])]
      first == sorted(SelectSeq(names, LAMBDA n : inDegree[n] = 0))
      ls == kahn(first, inDegree, names, deps)
  IN  IF bad # <<>> THEN [kind |-> "unknown", path |-> bad]
      ELSE IF cycle # <<>> THEN [kind |-> "cycle", path |-> cycle]
      ELSE IF Len(names) - lengths(ls) > 0 THEN [kind |-> "remaining", path |-> <<>>]
      ELSE [kind |-> "layers", layers |-> ls]

\* buildDag runs
DagBuild ==
  /\ dpc = "called"
  /\ dResult' = buildDagResult(dServices, dDeps)
  /\ dpc' = "done"
  /\ UNCHANGED <<dServices, dDeps>>
  /\ UNCHANGED exceptDag

\* buildDag called on a manifest
DagInit ==
  /\ OrchIdle
  /\ WaitIdle
  /\ ProcIdle
  /\ ContIdle
  /\ ReadyIdle
  /\ FilterIdle
  /\ HostsIdle
  /\ TlsIdle
  /\ EnvIdle
  /\ RegIdle
  /\ UpIdle
  /\ HydIdle
  /\ dServices \in DagKeyOrders
  /\ dDeps \in [DagNames -> DepLists]
  /\ dResult = [kind |-> "none"]
  /\ dpc = "called"

DagNext ==
  \/ DagBuild

DagSpec == DagInit /\ [][DagNext]_vars

\* --------------------------------------------------- resolveServiceFilter
\* the variables of everything but resolveServiceFilter
exceptFilter == <<orchVars, waitVars, procVars, contVars, readyVars, dagVars, hostsVars, tlsVars, svcEnvVars, regVars, upVars, hydVars>>

\* the dependsOn lists of a config whose references buildDag has accepted
KnownDepLists == {q \in DepLists : Range(q) \subseteq DagNames}

\* the lists of names requested: up to two names, repeats and unknown
\* names included, and the full service list
RequestedLists == DepLists \cup DagKeyOrders

\* the first requested name that is no service of the config; <<>> when
\* every requested name is one
firstUnknown(requested, deps) ==
  LET bad == SelectSeq(requested, LAMBDA n : n \notin DOMAIN deps)
  IN  IF bad = <<>> THEN <<>> ELSE <<Head(bad)>>

\* no dependency is enqueued
unseenDepsNone(name, deps, result) == <<>>

\* the dependencies of `name` pushed on the queue: those not yet in result
unseenDeps(name, deps, result) ==
  SelectSeq(deps[name], LAMBDA dep : dep \notin result)

RECURSIVE bfs(_, _, _)
\* the while loop over the queue
bfs(queue, result, deps) ==
  IF queue = <<>> THEN result
  ELSE LET name == Head(queue)
       IN  IF name \in result THEN bfs(Tail(queue), result, deps)
           ELSE bfs(Tail(queue) \o unseenDeps(name, deps, result \cup {name}),
                    result \cup {name}, deps)

\* resolveServiceFilter(requested, config): the set returned, or the
\* FilterError thrown
resolveServiceFilter(requested, deps) ==
  LET bad == firstUnknown(requested, deps)
  IN  IF bad # <<>> THEN [kind |-> "FilterError", name |-> bad[1]]
      ELSE [kind |-> "set", set |-> bfs(requested, {}, deps)]

\* resolveServiceFilter runs
FilterResolve ==
  /\ fpc = "called"
  /\ fResult' = resolveServiceFilter(fRequested, fDeps)
  /\ fpc' = "done"
  /\ UNCHANGED <<fRequested, fDeps>>
  /\ UNCHANGED exceptFilter

\* resolveServiceFilter called on a config buildDag has accepted the
\* references of
FilterInit ==
  /\ OrchIdle
  /\ WaitIdle
  /\ ProcIdle
  /\ ContIdle
  /\ ReadyIdle
  /\ DagIdle
  /\ HostsIdle
  /\ TlsIdle
  /\ EnvIdle
  /\ RegIdle
  /\ UpIdle
  /\ HydIdle
  /\ fRequested \in RequestedLists
  /\ fDeps \in [DagNames -> KnownDepLists]
  /\ fResult = [kind |-> "none"]
  /\ fpc = "called"

FilterNext ==
  \/ FilterResolve

FilterSpec == FilterInit /\ [][FilterNext]_vars

\* ------------------------------------------------------------- hosts block
\* the variables of everything but the hosts block functions
exceptHosts == <<orchVars, waitVars, procVars, contVars, readyVars, dagVars,
                 filterVars, tlsVars, svcEnvVars, regVars, upVars, hydVars>>

\* Strings are lists of characters: "n" is the newline, "x" and "y" stand
\* for any other text.  The two markers, `# lo1-start` and `# lo1-end`, are
\* abridged to two characters each, the first one shared.
MARKER_START == <<"#", "s">>
MARKER_END == <<"#", "e">>

\* str.slice(from, to), on 0-based indices
slice(str, from, to) ==
  LET a == IF from > Len(str) THEN Len(str) ELSE from
      b == IF to > Len(str) THEN Len(str) ELSE to
  IN  IF b <= a THEN <<>> ELSE SubSeq(str, a + 1, b)

\* str.slice(from)
sliceFrom(str, from) == slice(str, from, Len(str))

\* pat occurs in str at the 0-based index i
occursAt(str, pat, i) ==
  /\ i + Len(pat) <= Len(str)
  /\ \A k \in 1..Len(pat) : str[i + k] = pat[k]

\* str.indexOf(pat)
indexOf(str, pat) ==
  LET hits == {i \in 0..Len(str) : occursAt(str, pat, i)}
  IN  IF hits = {} THEN -1 ELSE CHOOSE i \in hits : \A j \in hits : i <= j

\* str.endsWith("\n")
endsWithNewline(str) == Len(str) > 0 /\ str[Len(str)] = "n"

RECURSIVE joinLines(_)
\* lines.join("\n")
joinLines(ls) ==
  IF ls = <<>> THEN <<>>
  ELSE IF Len(ls) = 1 THEN ls[1]
  ELSE ls[1] \o <<"n">> \o joinLines(Tail(ls))

\* generateHostsBlock(domains) for a non-empty domain list whose joined
\* names are the text d
generateHostsBlock(d) ==
  joinLines(<<MARKER_START, <<"4">> \o d, <<"6">> \o d, MARKER_END>>) \o <<"n">>

\* what follows the replaced region, the end marker not skipped
afterEndKeepsMarker(content, endIdx) == sliceFrom(content, endIdx)

\* currentContent.slice(endIdx + MARKER_END.length + 1)
afterEnd(content, endIdx) == sliceFrom(content, endIdx + Len(MARKER_END) + 1)

replaceHostsBlock(currentContent, block) ==
  LET startIdx == indexOf(currentContent, MARKER_START)
      endIdx == indexOf(currentContent, MARKER_END)
      separator == IF endsWithNewline(currentContent) THEN <<>> ELSE <<"n">>
  IN  IF startIdx # -1 /\ endIdx # -1
      THEN slice(currentContent, 0, startIdx) \o block \o afterEnd(currentContent, endIdx)
      ELSE currentContent \o separator \o block

removeHostsBlock(currentContent) ==
  LET startIdx == indexOf(currentContent, MARKER_START)
      endIdx == indexOf(currentContent, MARKER_END)
  IN  IF startIdx = -1 \/ endIdx = -1 THEN currentContent
      ELSE slice(currentContent, 0, startIdx) \o afterEnd(currentContent, endIdx)

\* the lines a hosts file is made of: empty, other text, a marker alone, an
\* end marker with text after it
HostsLines == {<<>>, <<"x">>, MARKER_START, MARKER_END, MARKER_END \o <<"x">>}

\* the hosts files: up to MaxLines lines, with or without a final newline
HostsContents ==
  {joinLines(ls) \o tr :
     ls \in UNION {[1..k -> HostsLines] : k \in 0..MaxLines},
     tr \in {<<>>, <<"n">>}}

\* the blocks generateHostsBlock yields for two domain lists; applyHosts is
\* not called with the empty block of an empty list
HostsBlocks == {generateHostsBlock(<<"y">>), generateHostsBlock(<<"y", "y">>)}

\* applyHosts' transform runs on the file
HostsReplace ==
  /\ hpc = "called"
  /\ hReplaced' = replaceHostsBlock(hContent, hBlock)
  /\ hpc' = "replaced"
  /\ UNCHANGED <<hContent, hBlock, hRemoved>>
  /\ UNCHANGED exceptHosts

\* removeHosts' transform runs on what applyHosts wrote
HostsRemove ==
  /\ hpc = "replaced"
  /\ hRemoved' = removeHostsBlock(hReplaced)
  /\ hpc' = "removed"
  /\ UNCHANGED <<hContent, hBlock, hReplaced>>
  /\ UNCHANGED exceptHosts

\* a hosts file and a generated block
HostsInit ==
  /\ OrchIdle
  /\ WaitIdle
  /\ ProcIdle
  /\ ContIdle
  /\ ReadyIdle
  /\ DagIdle
  /\ FilterIdle
  /\ TlsIdle
  /\ EnvIdle
  /\ RegIdle
  /\ UpIdle
  /\ HydIdle
  /\ hContent \in HostsContents
  /\ hBlock \in HostsBlocks
  /\ hReplaced = <<>>
  /\ hRemoved = <<>>
  /\ hpc = "called"

HostsNext ==
  \/ HostsReplace
  \/ HostsRemove

HostsSpec == HostsInit /\ [][HostsNext]_vars

\* ----------------------------------------------------------- trustCaddyCa
\* the variables of everything but trustCaddyCa
exceptTls == <<orchVars, waitVars, procVars, contVars, readyVars, dagVars,
               filterVars, hostsVars, svcEnvVars, regVars, upVars, hydVars>>

\* deps.hash(cert): the digest of a certificate, distinct per certificate
hash(cert) == IF cert = "A" THEN "hashA" ELSE "hashB"

\* a file holding `text`, followed by a newline or not
File(text, nl) == [text |-> text, nl |-> nl, missing |-> FALSE]

\* the cache is never looked at
cacheHitNever(file, certHash) == FALSE

\* cachedHash && cachedHash.trim() === certHash: readFile gives null for a
\* missing file, and an empty string is falsy
cacheHit(file, certHash) ==
  /\ file # NoFile
  /\ ~(file.text = "" /\ ~file.nl)
  /\ file.text = certHash

\* the current call ends
Ended(outcome) ==
  /\ tOutcomes' = Append(tOutcomes, outcome)
  /\ tpc' = "ended"

\* trustCaddyCa is called again, for the same certificate and directory
TlsCallAgain ==
  /\ tpc = "ended"
  /\ Len(tOutcomes) = 1
  /\ tpc' = "extract"
  /\ tInstalls' = Append(tInstalls, 0)
  /\ UNCHANGED <<tCert, tHashFile, tCertFile, tCachedAtFirst, tOutcomes>>
  /\ UNCHANGED exceptTls

\* extractCaCert: `docker exec <container> cat <root.crt>`
TlsExtract ==
  /\ tpc = "extract"
  /\ \/ /\ tpc' = "readHash"
        /\ UNCHANGED tOutcomes
     \/ Ended("TlsError")
  /\ UNCHANGED <<tCert, tHashFile, tCertFile, tCachedAtFirst, tInstalls>>
  /\ UNCHANGED exceptTls

\* the cached hash is read and compared with the certificate's
TlsReadHash ==
  /\ tpc = "readHash"
  /\ IF cacheHit(tHashFile, hash(tCert))
     THEN Ended("resolved")
     ELSE /\ tpc' = "mkdir"
          /\ UNCHANGED tOutcomes
  /\ UNCHANGED <<tCert, tHashFile, tCertFile, tCachedAtFirst, tInstalls>>
  /\ UNCHANGED exceptTls

\* deps.mkdir(certDir)
TlsMkdir ==
  /\ tpc = "mkdir"
  /\ \/ /\ tpc' = "writeCert"
        /\ UNCHANGED tOutcomes
     \/ Ended("fsError")
  /\ UNCHANGED <<tCert, tHashFile, tCertFile, tCachedAtFirst, tInstalls>>
  /\ UNCHANGED exceptTls

\* deps.writeFile(certPath, cert)
TlsWriteCert ==
  /\ tpc = "writeCert"
  /\ \/ /\ tCertFile' = File(tCert, FALSE)
        /\ tpc' = "install"
        /\ UNCHANGED tOutcomes
     \/ /\ Ended("fsError")
        /\ UNCHANGED tCertFile
  /\ UNCHANGED <<tCert, tHashFile, tCachedAtFirst, tInstalls>>
  /\ UNCHANGED exceptTls

\* installOnHost: the platform's trust-store commands run, and any of them
\* may fail
TlsInstall ==
  /\ tpc = "install"
  /\ tInstalls' = [tInstalls EXCEPT ![Len(tInstalls)] = @ + 1]
  /\ \/ /\ tpc' = "writeHash"
        /\ UNCHANGED tOutcomes
     \/ Ended("TlsError")
  /\ UNCHANGED <<tCert, tHashFile, tCertFile, tCachedAtFirst>>
  /\ UNCHANGED exceptTls

\* deps.writeFile(hashPath, certHash)
TlsWriteHash ==
  /\ tpc = "writeHash"
  /\ \/ /\ tHashFile' = File(hash(tCert), FALSE)
        /\ Ended("resolved")
     \/ /\ Ended("fsError")
        /\ UNCHANGED tHashFile
  /\ UNCHANGED <<tCert, tCertFile, tCachedAtFirst, tInstalls>>
  /\ UNCHANGED exceptTls

\* the first call is made, on a workspace directory in any state
TlsInit ==
  /\ OrchIdle
  /\ WaitIdle
  /\ ProcIdle
  /\ ContIdle
  /\ ReadyIdle
  /\ DagIdle
  /\ FilterIdle
  /\ HostsIdle
  /\ EnvIdle
  /\ RegIdle
  /\ UpIdle
  /\ HydIdle
  /\ tCert \in {"A", "B"}
  /\ tHashFile \in {NoFile} \cup {File(t, nl) : t \in {"", "hashA", "hashB"}, nl \in BOOLEAN}
  /\ tCertFile \in {NoFile, File("A", FALSE)}
  /\ tCachedAtFirst = cacheHit(tHashFile, hash(tCert))
  /\ tInstalls = <<0>>
  /\ tOutcomes = <<>>
  /\ tpc = "extract"

TlsNext ==
  \/ TlsCallAgain
  \/ TlsExtract
  \/ TlsReadHash
  \/ TlsMkdir
  \/ TlsWriteCert
  \/ TlsInstall
  \/ TlsWriteHash

TlsSpec == TlsInit /\ [][TlsNext]_vars

\* -------------------------------------------------------- buildServiceEnv
\* the variables of everything but buildServiceEnv
exceptEnv == <<orchVars, waitVars, procVars, contVars, readyVars, dagVars,
               filterVars, hostsVars, tlsVars, regVars, upVars, hydVars>>

\* An environment is a function from keys to values; a value is a list of
\* pieces of text, so that replaceAll can rewrite the pieces it matches.

\* the service the environment is built for, and its workspace
EnvServiceName == "users-api"
EnvWorkspaceName == "my-platform"

\* the registry: one endpoint, whose host port differs from its port
EnvRegistry ==
  [api |-> [name |-> "api", port |-> "8080", hostPort |-> "9090",
            internalUrl |-> "http://api:8080",
            externalUrl |-> "http://localhost:9090",
            proxyUrl |-> "http://api.my-platform.local"]]

\* name.replaceAll("-", "_").toUpperCase(), on the names in use
toEnvKey(name) ==
  CASE name = "api" -> "API"
    [] name = "users-api" -> "USERS_API"

\* a spread in which the earlier object wins
spreadKeepsFirst(a, b) ==
  [k \in DOMAIN a \cup DOMAIN b |-> IF k \in DOMAIN a THEN a[k] ELSE b[k]]

\* { ...a, ...b }
spread(a, b) ==
  [k \in DOMAIN a \cup DOMAIN b |-> IF k \in DOMAIN b THEN b[k] ELSE a[k]]

\* the three variables of one endpoint
endpointVars(endpoint, consumerMode) ==
  LET key == toEnvKey(endpoint.name)
      url == IF consumerMode = "container" THEN endpoint.internalUrl
             ELSE endpoint.externalUrl
      port == IF consumerMode = "container" THEN endpoint.port ELSE endpoint.hostPort
  IN  [k \in {"LO1_SERVICE_" \o key \o "_URL", "LO1_SERVICE_" \o key \o "_PORT",
              "LO1_SERVICE_" \o key \o "_PROXY_URL"} |->
         IF k = "LO1_SERVICE_" \o key \o "_URL" THEN <<url>>
         ELSE IF k = "LO1_SERVICE_" \o key \o "_PORT" THEN <<port>>
         ELSE <<endpoint.proxyUrl>>]

RECURSIVE discoveryFrom(_, _, _)
\* the loop of buildDiscoveryEnvVars over the endpoints not yet visited
discoveryFrom(registry, names, consumerMode) ==
  IF names = {} THEN <<>>
  ELSE LET n == CHOOSE x \in names : TRUE
       IN  spread(endpointVars(registry[n], consumerMode),
                  discoveryFrom(registry, names \ {n}, consumerMode))

buildDiscoveryEnvVars(registry, consumerMode) ==
  discoveryFrom(registry, DOMAIN registry, consumerMode)

\* value.replaceAll(`${name}:${port}`, `localhost:${hostPort}`) for one
\* endpoint: every piece that is the endpoint's address is rewritten
rewriteFor(value, endpoint) ==
  [i \in DOMAIN value |->
     IF value[i] = endpoint.name \o ":" \o endpoint.port
     THEN "localhost:" \o endpoint.hostPort
     ELSE value[i]]

RECURSIVE rewriteAll(_, _, _)
\* the inner loop of translatePluginEnvVars over the endpoints
rewriteAll(value, registry, names) ==
  IF names = {} THEN value
  ELSE LET n == CHOOSE x \in names : TRUE
       IN  rewriteAll(rewriteFor(value, registry[n]), registry, names \ {n})

translatePluginEnvVars(pluginEnvVars, registry) ==
  [k \in DOMAIN pluginEnvVars |-> rewriteAll(pluginEnvVars[k], registry, DOMAIN registry)]

\* buildServiceEnv: discovery variables, then the plugin's, then the
\* service's own, then the two reserved ones
buildServiceEnv(serviceName, serviceEnv, workspaceName, registry, pluginEnvVars, consumerMode) ==
  LET discoveryVars == buildDiscoveryEnvVars(registry, consumerMode)
      translatedPluginVars ==
        IF consumerMode = "host" THEN translatePluginEnvVars(pluginEnvVars, registry)
        ELSE pluginEnvVars
      own == IF serviceEnv = NoEnv THEN <<>> ELSE serviceEnv.vars
  IN  spread(spread(spread(discoveryVars, translatedPluginVars), own),
             [k \in {"LO1_SERVICE_NAME", "LO1_WORKSPACE_NAME"} |->
                IF k = "LO1_SERVICE_NAME" THEN <<serviceName>> ELSE <<workspaceName>>])

\* the keys and values the two sources may define
EnvKeys == {"SHARED", "LO1_SERVICE_NAME", "LO1_SERVICE_API_URL"}
EnvValues == {<<"one">>, <<"two">>, <<"db=", "api:8080">>}
Envs == UNION {[ks -> EnvValues] : ks \in SUBSET EnvKeys}

\* buildServiceEnv runs
EnvBuild ==
  /\ epc = "called"
  /\ eResult' = buildServiceEnv(EnvServiceName, eServiceEnv, EnvWorkspaceName,
                                EnvRegistry, ePluginEnv, eMode)
  /\ epc' = "done"
  /\ UNCHANGED <<eServiceEnv, ePluginEnv, eMode>>
  /\ UNCHANGED exceptEnv

\* buildServiceEnv called for a service and a plugin's variables
EnvInit ==
  /\ OrchIdle
  /\ WaitIdle
  /\ ProcIdle
  /\ ContIdle
  /\ ReadyIdle
  /\ DagIdle
  /\ FilterIdle
  /\ HostsIdle
  /\ TlsIdle
  /\ RegIdle
  /\ UpIdle
  /\ HydIdle
  /\ eServiceEnv \in {NoEnv} \cup {[vars |-> e, defined |-> TRUE] : e \in Envs}
  /\ ePluginEnv \in Envs
  /\ eMode \in {"host", "container"}
  /\ eResult = <<>>
  /\ epc = "called"

EnvNext ==
  \/ EnvBuild

EnvSpec == EnvInit /\ [][EnvNext]_vars

\* -------------------------------------------------- buildEndpointRegistry
\* the variables of everything but buildEndpointRegistry
exceptReg == <<orchVars, waitVars, procVars, contVars, readyVars, dagVars,
               filterVars, hostsVars, tlsVars, svcEnvVars, upVars, hydVars>>

\* an optional number of the manifest: absent, or given with a value
Absent == [given |-> FALSE, value |-> 0]
Given(v) == [given |-> TRUE, value |-> v]

\* the services of the manifests the registry is built from
RegNames == {"api", "web"}
RegPorts == {Absent, Given(0), Given(3000)}
RegHostPorts == {Absent, Given(9090)}
RegModes == {"dev", "container", "skip"}

\* !service.port: undefined and 0 are both falsy
falsyPort(port) == ~port.given \/ port.value = 0

\* the mode is not looked at
skippedByPortOnly(service) == falsyPort(service.port)

\* if (!service.port || service.mode === "skip") continue
skipped(service) == falsyPort(service.port) \/ service.mode = "skip"

\* the ServiceEndpoint of a service that is not skipped
endpointOf(name, service, tlsEnabled) ==
  [name |-> name,
   port |-> service.port.value,
   hostPort |-> IF service.hostPort.given THEN service.hostPort.value
                ELSE service.port.value,
   scheme |-> IF tlsEnabled THEN "https" ELSE "http",
   mode |-> service.mode]

buildEndpointRegistry(services, tlsEnabled) ==
  [n \in {m \in DOMAIN services : ~skipped(services[m])} |->
     endpointOf(n, services[n], tlsEnabled)]

\* buildEndpointRegistry runs
RegBuild ==
  /\ gpc = "called"
  /\ gResult' = buildEndpointRegistry(gServices, gTls)
  /\ gpc' = "done"
  /\ UNCHANGED <<gServices, gTls>>
  /\ UNCHANGED exceptReg

\* buildEndpointRegistry called on a manifest
RegInit ==
  /\ OrchIdle
  /\ WaitIdle
  /\ ProcIdle
  /\ ContIdle
  /\ ReadyIdle
  /\ DagIdle
  /\ FilterIdle
  /\ HostsIdle
  /\ TlsIdle
  /\ EnvIdle
  /\ UpIdle
  /\ HydIdle
  /\ gServices \in [RegNames -> [port : RegPorts, hostPort : RegHostPorts, mode : RegModes]]
  /\ gTls \in BOOLEAN
  /\ gResult = <<>>
  /\ gpc = "called"

RegNext ==
  \/ RegBuild

RegSpec == RegInit /\ [][RegNext]_vars

\* ----------------------------------------------------------- the up command
\* the variables of the units other than the up command
besideUp == <<waitVars, procVars, contVars, readyVars, dagVars, filterVars,
              hostsVars, tlsVars, svcEnvVars, regVars, hydVars>>

\* startWorkspace resolved: the summary is printed; a detached run kills the
\* log stream and returns, any other waits for SIGINT / SIGTERM
UpStarted ==
  /\ upc = "starting"
  /\ pc = "done"
  /\ IF uDetached
     THEN upc' = "returned" /\ logsHandle' = killLogs
     ELSE upc' = "waiting" /\ UNCHANGED logsHandle
  /\ UNCHANGED <<config, pc, aborted, abortedAfterStart, fsVars, composeUpCalled,
                 composeDownCalls, staleVars, svcVars, liveStop, layerVars,
                 resultVars, stopVars, histVars>>
  /\ UNCHANGED <<uSkipTeardown, uDetached, uStartupError>>
  /\ UNCHANGED besideUp

\* waitForShutdownSignal: resolves once the controller has aborted
UpShutdownSignal ==
  /\ upc = "waiting"
  /\ aborted' = TRUE
  /\ upc' = "teardown"
  /\ UNCHANGED <<config, pc, abortedAfterStart, fsVars, composeVars, staleVars,
                 svcVars, liveStop, layerVars, resultVars, stopVars, histVars>>
  /\ UNCHANGED <<uSkipTeardown, uDetached, uStartupError>>
  /\ UNCHANGED besideUp

\* catch (err): if (!controller.signal.aborted) startupError = err
UpCatch ==
  /\ upc = "starting"
  /\ pc = "failed"
  /\ uStartupError' = IF ~aborted THEN err ELSE "none"
  /\ upc' = "teardown"
  /\ UNCHANGED orchVars
  /\ UNCHANGED <<uSkipTeardown, uDetached>>
  /\ UNCHANGED besideUp

\* startWorkspace returned a result
started == pc = "done"

\* teardown(): kill the log stream; return at once under --skip-teardown,
\* call stopWorkspace with result?.handles otherwise
UpTeardown ==
  /\ upc = "teardown"
  /\ logsHandle' = IF started THEN killLogs ELSE logsHandle
  /\ IF uSkipTeardown
     THEN /\ upc' = "tornDown"
          /\ UNCHANGED <<pc, stopVars, stopLog, stopCalls>>
     ELSE /\ upc' = "stopping"
          /\ pc' = "sReadState"
          /\ stopHandles' = IF started THEN "live" ELSE "hydrated"
          /\ stopIdx' = 1
          /\ stopLog' = Append(stopLog, Ev("call", 0))
          /\ stopCalls' = stopCalls + 1
          /\ UNCHANGED <<hydStop, stopErr>>
  /\ UNCHANGED <<config, aborted, abortedAfterStart, fsVars, composeUpCalled,
                 composeDownCalls, staleVars, svcVars, liveStop, layerVars,
                 resultVars, existingState, abortPc, waited, svcLog>>
  /\ UNCHANGED <<uSkipTeardown, uDetached, uStartupError>>
  /\ UNCHANGED besideUp

\* stopWorkspace has resolved or rejected
stopEnded == pc \in {"stopped", "stopFailed", "noWorkspace"}

\* the teardown without its try / catch: a rejection of stopWorkspace leaves
\* the command in place of the startup error
UpStopDoneNoCatch ==
  /\ upc = "stopping"
  /\ stopEnded
  /\ IF pc = "stopFailed"
     THEN upc' = "rethrown" /\ uStartupError' = stopErr
     ELSE upc' = "tornDown" /\ UNCHANGED uStartupError
  /\ UNCHANGED orchVars
  /\ UNCHANGED <<uSkipTeardown, uDetached>>
  /\ UNCHANGED besideUp

\* try { await stopWorkspace(...) } catch { /* best-effort shutdown */ }
UpStopDone ==
  /\ upc = "stopping"
  /\ stopEnded
  /\ upc' = "tornDown"
  /\ UNCHANGED orchVars
  /\ UNCHANGED <<uSkipTeardown, uDetached, uStartupError>>
  /\ UNCHANGED besideUp

\* if (startupError) throw startupError
UpEnd ==
  /\ upc = "tornDown"
  /\ upc' = IF uStartupError # "none" THEN "rethrown" ELSE "returned"
  /\ UNCHANGED orchVars
  /\ UNCHANGED <<uSkipTeardown, uDetached, uStartupError>>
  /\ UNCHANGED besideUp

\* lo1 up with any combination of --skip-teardown and --detach
UpInit ==
  /\ WaitIdle
  /\ ProcIdle
  /\ ContIdle
  /\ ReadyIdle
  /\ DagIdle
  /\ FilterIdle
  /\ HostsIdle
  /\ TlsIdle
  /\ EnvIdle
  /\ RegIdle
  /\ HydIdle
  /\ StartInit
  /\ uSkipTeardown \in BOOLEAN
  /\ uDetached \in BOOLEAN
  /\ uStartupError = "none"
  /\ upc = "starting"

\* startWorkspace and stopWorkspace as the up command runs them
UpNext ==
  \/ Abort
  \/ ReadState
  \/ StaleStop
  \/ StaleComposeDown
  \/ StaleRemoveState
  \/ LoadConfig
  \/ WriteComposeFile
  \/ WriteCaddyfile
  \/ ApplyHosts
  \/ WriteBaseState
  \/ ComposeInfraUp
  \/ ComposeInfraWait
  \/ ComposeAppUp
  \/ ComposeAppWait
  \/ TrustCaddyCa
  \/ PostInfrastructure
  \/ Provision
  \/ Seed
  \/ LayerStart
  \/ \E s \in Services : SvcPreStart(s)
  \/ \E s \in Services : SvcRunner(s)
  \/ \E s \in Services : SvcProbe(s)
  \/ \E s \in Services : SvcProbeStop(s)
  \/ \E s \in Services : SvcPostStart(s)
  \/ LayerJoin
  \/ TeardownStop
  \/ TeardownRethrow
  \/ WriteFinalState
  \/ PostSetup
  \/ UpStarted
  \/ UpShutdownSignal
  \/ UpCatch
  \/ UpTeardown
  \/ StopReadState
  \/ StopPreStop
  \/ StopHandle
  \/ StopComposeDown
  \/ StopRemoveState
  \/ UpStopDone
  \/ UpEnd

UpSpec == UpInit /\ [][UpNext]_vars

\* ------------------------------------------- hydrated process handle stop
\* the variables of everything but the hydrated process handle
exceptHyd == <<orchVars, waitVars, procVars, contVars, readyVars, dagVars,
               filterVars, hostsVars, tlsVars, svcEnvVars, regVars, upVars>>

\* the pids a state file may record for a process-runner service
HydPids == {Absent, Given(0), Given(4242)}

\* stop() of the hydrated handle, from call to return: if (svc.pid)
\* process.kill(svc.pid, "SIGTERM"), which throws (and is caught) when no
\* such process is left
HydStopCall ==
  /\ hypc = "idle"
  /\ hyKills' = IF hyPid.given /\ hyPid.value # 0 /\ hyProc = "running"
                THEN Append(hyKills, "SIGTERM")
                ELSE hyKills
  /\ hypc' = "resolved"
  /\ UNCHANGED <<hyPid, hyProc, hyHeedsTerm, hyClock>>
  /\ UNCHANGED exceptHyd

\* the process exits: on its own before the stop, or on a SIGTERM it heeds
HydProcExit ==
  /\ hyProc = "running"
  /\ \/ hypc = "idle"
     \/ hyHeedsTerm /\ hyKills # <<>>
  /\ hyProc' = "exited"
  /\ UNCHANGED <<hyPid, hyHeedsTerm, hyKills, hyClock, hypc>>
  /\ UNCHANGED exceptHyd

\* time passes after stop() returned
HydTick ==
  /\ hypc = "resolved"
  /\ hyClock <= DEFAULT_STOP_TIMEOUT
  /\ hyClock' = hyClock + TickMs
  /\ UNCHANGED <<hyPid, hyProc, hyHeedsTerm, hyKills, hypc>>
  /\ UNCHANGED exceptHyd

\* a handle hydrated for a process-runner service of the state file
HydInit ==
  /\ OrchIdle
  /\ WaitIdle
  /\ ProcIdle
  /\ ContIdle
  /\ ReadyIdle
  /\ DagIdle
  /\ FilterIdle
  /\ HostsIdle
  /\ TlsIdle
  /\ EnvIdle
  /\ RegIdle
  /\ UpIdle
  /\ hyPid \in HydPids
  /\ hyProc \in {"running", "exited"}
  /\ hyHeedsTerm \in BOOLEAN
  /\ hyKills = <<>>
  /\ hyClock = 0
  /\ hypc = "idle"

HydNext ==
  \/ HydStopCall
  \/ HydProcExit
  \/ HydTick

HydSpec == HydInit /\ [][HydNext]_vars

\* ----------------------------------------------------------- specification
Next ==
  \/ Abort
  \/ ReadState
  \/ StaleStop
  \/ StaleComposeDown
  \/ StaleRemoveState
  \/ LoadConfig
  \/ WriteComposeFile
  \/ WriteCaddyfile
  \/ ApplyHosts
  \/ WriteBaseState
  \/ ComposeInfraUp
  \/ ComposeInfraWait
  \/ ComposeAppUp
  \/ ComposeAppWait
  \/ TrustCaddyCa
  \/ PostInfrastructure
  \/ Provision
  \/ Seed
  \/ LayerStart
  \/ \E s \in Services : SvcPreStart(s)
  \/ \E s \in Services : SvcRunner(s)
  \/ \E s \in Services : SvcProbe(s)
  \/ \E s \in Services : SvcProbeStop(s)
  \/ \E s \in Services : SvcPostStart(s)
  \/ LayerJoin
  \/ TeardownStop
  \/ TeardownRethrow
  \/ WriteFinalState
  \/ PostSetup
  \/ StopWorkspaceCall
  \/ StopReadState
  \/ StopPreStop
  \/ StopHandle
  \/ StopComposeDown
  \/ StopRemoveState

Spec == Init /\ [][Next]_vars

TypeOK ==
  /\ config \in Configs
  /\ aborted \in BOOLEAN
  /\ abortedAfterStart \in BOOLEAN
  /\ logsHandle \in {"none", "running", "killed"}
  /\ composeUpCalled \subseteq {"infra", "app"}
  /\ Range(allHandles) \subseteq Names
  /\ \A s \in Services :
       /\ spc[s] \in {"idle", "preStart", "runner", "probe", "probeStop",
                      "postStart", "fulfilled", "rejected"}
       /\ liveStop[s] \in {"none", "ok", "rejected"}
       /\ elapsed[s] >= 0
       /\ interval[s] <= DEFAULT_MAX_INTERVAL_MS

\* ------------------------------------------------------------ properties
Produced(s) == spc[s] = "fulfilled"

StopInvoked(s) == liveStop[s] # "none"

InLayers == failPhase \in {"layerStart", "layerWait"}

\* C1: no startService call of a later layer is issued until the startService
\* call of every non-skip service of each earlier layer has settled.
LayerHappensBefore ==
  \A i \in 1..Len(layers) : \A j \in 1..Len(layers) :
    (i < j /\ \E s \in Range(layerMembers(j)) : spc[s] # "idle")
      => \A t \in Range(layerMembers(i)) : Settled(t)

\* a second-layer call has been issued while the first layer had members
LayerHappensBeforeWitness ==
  /\ Len(layers) >= 2
  /\ Len(layerMembers(1)) > 0
  /\ \E s \in Range(layerMembers(2)) : spc[s] \notin {"idle", "fulfilled", "rejected"}

\* C2: when the signal trips between two layers, startWorkspace rejects only
\* after stop() has been invoked on every handle the earlier layers returned.
AbortBetweenLayersStopsAll ==
  (pc = "failed" /\ failPhase = "layerStart")
    => \A s \in Services : Produced(s) => StopInvoked(s)

\* the signal tripped after layer 1 had produced handles
AbortBetweenLayersWitness ==
  /\ pc = "failed"
  /\ failPhase = "layerStart"
  /\ layerIdx >= 2
  /\ Len(allHandles) >= 1
  /\ \A s \in Range(allHandles) : StopInvoked(s)

\* C3: when a startService call of a layer rejects, its siblings settle before
\* the failure is thrown, and stop() is invoked on every handle produced in
\* that layer and the earlier ones before startWorkspace rejects.
LayerFailureStopsSiblings ==
  /\ (pc \in {"teardown", "failed"} /\ failPhase = "layerWait")
       => \A s \in Range(layerMembers(layerIdx)) : Settled(s)
  /\ (pc = "failed" /\ failPhase = "layerWait")
       => \A s \in Services : Produced(s) => StopInvoked(s)

\* a sibling fulfilled after the failing member rejected, and was stopped
\* together with a handle of the earlier layer
LayerFailureWitness ==
  /\ pc = "failed"
  /\ failPhase = "layerWait"
  /\ layerIdx = 2
  /\ lateFulfil
  /\ \E s \in Range(layerMembers(1)) : Produced(s) /\ StopInvoked(s)
  /\ \E s \in Range(layerMembers(2)) : Produced(s) /\ StopInvoked(s)

\* C4: whenever startWorkspace fails after handles have been produced, stop()
\* has been invoked on every produced handle before the error propagates.
EveryFailureStopsHandles ==
  pc = "failed" => \A s \in Services : Produced(s) => StopInvoked(s)

\* C5: when the signal trips after a handle has been produced and before
\* startWorkspace returns, stop() is invoked on every handle produced (a
\* failure of the final state write, which takes no signal, is left aside).
AbortAfterStartStopsHandles ==
  (pc \in {"done", "failed"} /\ abortedAfterStart /\ failPhase # "writeFinal")
    => \A s \in Services : Produced(s) => StopInvoked(s)

\* the error the layered start threw: the abort, or the reason of the first
\* rejected member of the failing layer
originalError ==
  IF failPhase = "layerStart" THEN "OrchestratorError"
  ELSE rej[rejectedOf(layerMembers(layerIdx))[1]]

\* C6: in the failure teardown a rejecting stop() does not keep stop() from
\* the remaining handles, and startWorkspace rejects with the original error.
TeardownBestEffort ==
  (pc = "failed" /\ InLayers)
    => /\ \A s \in Range(allHandles) : StopInvoked(s)
       /\ err = originalError

\* a stop() rejected and a later handle was still stopped
TeardownBestEffortWitness ==
  /\ pc = "failed"
  /\ InLayers
  /\ \E i \in 1..Len(allHandles) : \E j \in 1..Len(allHandles) :
       /\ i < j
       /\ liveStop[allHandles[i]] = "rejected"
       /\ StopInvoked(allHandles[j])

\* C7: a readiness probe that never succeeds within its timeout makes
\* startService reject, after stop() of the started runner was invoked.
ProbeTimeoutStopsRunner ==
  \A s \in Services :
    probeResult[s] = "timed out"
      => /\ spc[s] \in {"probeStop", "rejected"}
         /\ spc[s] = "rejected" => StopInvoked(s)

\* a probe ran out of time and the call rejected with the probe error
ProbeTimeoutWitness ==
  \E s \in Services :
    /\ spc[s] = "rejected"
    /\ probeResult[s] = "timed out"
    /\ rej[s] = "ReadinessProbeError(timed out)"
    /\ elapsed[s] >= DEFAULT_TIMEOUT_MS
    /\ liveStop[s] = "ok"

\* the steps of startWorkspace from the compose phases onward
FromCompose ==
  {"infraUp", "infraWait", "appUp", "appWait", "tls", "postInfra", "provision",
   "seed", "layerStart", "layerWait", "writeFinal", "postSetup"}

\* C8: the baseline state (project name, empty services map) is on disk
\* before the first composeUp, so that every failure from the compose phases
\* onward leaves a state file naming the compose project.
BaselineBeforeComposeUp ==
  /\ (composeUpCalled # {} /\ \A i \in 1..Len(stopLog) : stopLog[i].e # "removeState")
       => (stateFile.present /\ stateFile.projectName = projectName)
  /\ (pc = "failed" /\ failPhase \in FromCompose)
       => (stateFile.present /\ stateFile.projectName = projectName)
  /\ pc \in {"infraUp", "infraWait", "appUp", "appWait"} => stateFile = BaseState

\* a compose phase failed and the baseline state is there
BaselineWitness ==
  /\ pc = "failed"
  /\ failPhase \in {"infraUp", "infraWait", "appUp", "appWait"}
  /\ composeUpCalled # {}
  /\ stateFile = BaseState

StaleCleanupNeverAborts ==
  ~(pc = "failed" /\ failPhase \in {"readState", "staleStop", "staleRemove"})

\* the steps of cleanupStaleWorkspace
InCleanup == {"readState", "staleStop", "staleRemove"}

\* what cleanupStaleWorkspace owes a state file it found
StaleCleaned ==
  /\ staleStopped = Range(hydrateHandles(existingState))
  /\ Len(composeDownCalls) >= 1
  /\ composeDownCalls[1] = existingState.projectName
  /\ Cardinality({i \in 1..Len(composeDownCalls) :
                    composeDownCalls[i] = existingState.projectName}) = 1

\* C11: when an earlier run left a state file, stop() has been invoked on
\* every handle hydrated from it, composeDown has been invoked exactly once
\* on the recorded project and the file has been removed, all before the new
\* run writes its baseline state or invokes composeUp.
StaleCleanupFirst ==
  existingState.present
    => /\ pc = "writeBase" => (StaleCleaned /\ ~stateFile.present)
       /\ (composeUpCalled # {} \/ (stateFile.present /\ stateFile.projectName = projectName))
            => StaleCleaned

\* a stale run with two services was cleaned up and the new run reached composeUp
StaleCleanupFirstWitness ==
  /\ existingState.present
  /\ Len(hydrateHandles(existingState)) = 2
  /\ staleStopped = {1, 2}
  /\ composeUpCalled # {}
  /\ stateFile = BaseState

\* C12: when the signal has tripped before startWorkspace is called, the
\* cancellation check rejects with OrchestratorError and nothing has been done:
\* no compose file, proxy config or hosts block written, no state written, no
\* composeUp.
PreAbortedNoSideEffects ==
  (abortPc = "readState" /\ pc = "failed" /\ failPhase = "writeBase")
    => /\ err = "OrchestratorError"
       /\ written = {}
       /\ composeUpCalled = {}
       /\ ~(stateFile.present /\ stateFile.projectName = projectName)

\* C13: composeUp for infra has returned when composeWait for infra begins;
\* composeWait for infra has succeeded when composeUp for app is invoked; both
\* waits have succeeded when the first startService call is made.
ComposePhaseOrder ==
  /\ pc = "infraWait" => ("infra" \in composeUpCalled /\ logsHandle = "running")
  /\ ("app" \in composeUpCalled /\ infraServices(config) # {}) => "infra" \in waited
  /\ pc = "appWait" => "app" \in composeUpCalled
  /\ (\E s \in Services : spc[s] # "idle")
       => /\ infraServices(config) # {} => "infra" \in waited
          /\ appServices(config) # {} => "app" \in waited

\* both compose phases ran and a service is being started
ComposePhaseOrderWitness ==
  /\ composeUpCalled = {"infra", "app"}
  /\ waited = {"infra", "app"}
  /\ \E s \in Services : spc[s] # "idle"

\* the steps startService owes a service, in the order of the source
expectedLog(s) ==
  (IF config.services[s].preStart THEN <<"preStart">> ELSE <<>>)
    \o <<"spawn">>
    \o (IF config.services[s].readinessProbe THEN <<"ready">> ELSE <<>>)
    \o (IF config.services[s].postStart THEN <<"postStart">> ELSE <<>>)
    \o <<"started">>

IsPrefix(a, b) == Len(a) <= Len(b) /\ \A i \in 1..Len(a) : a[i] = b[i]

\* C14: for each service the preStart hook has completed when the runner is
\* spawned, the readiness probe (when configured) has succeeded when the
\* postStart hook runs, and `service: started` is emitted only after the
\* postStart hook has completed.
ServiceStepOrder ==
  \A s \in Names :
    /\ IsPrefix(svcLog[s], expectedLog(s))
    /\ (spc[s] = "runner" /\ config.services[s].preStart)
         => svcLog[s] = <<"preStart">>
    /\ (spc[s] = "postStart" /\ config.services[s].readinessProbe)
         => svcLog[s][Len(svcLog[s])] = "ready"
    /\ spc[s] = "fulfilled" <=> (svcLog[s] # <<>> /\ svcLog[s][Len(svcLog[s])] = "started")

\* a service with both hooks and a probe went through all five steps
ServiceStepOrderWitness ==
  \E s \in Names :
    svcLog[s] = <<"preStart", "spawn", "ready", "postStart", "started">>

\* the entries of stopLog made by the stopWorkspace call under way (or the
\* last one made)
thisStop ==
  LET calls == {i \in 1..Len(stopLog) : stopLog[i].e = "call"}
      last == CHOOSE i \in calls : \A j \in calls : j <= i
  IN  IF calls = {} THEN <<>> ELSE SubSeq(stopLog, last + 1, Len(stopLog))

\* the place of an entry in the order stopWorkspace is to follow
rank(e) ==
  IF e = "preStop" THEN 1
  ELSE IF e = "stop" THEN 2
  ELSE IF e = "composeDown" THEN 3
  ELSE IF e = "removeState" THEN 4
  ELSE 5

Has(log, e) == \E i \in 1..Len(log) : log[i].e = e

\* C15: stopWorkspace runs the preStop hook before any handle is stopped,
\* invokes composeDown only after stop() of every handle has resolved, removes
\* the state file only after composeDown has returned, and emits `Stopped` last.
StopOrder ==
  LET log == thisStop IN
  /\ \A i \in 1..Len(log) : \A j \in 1..Len(log) :
       i < j => rank(log[i].e) <= rank(log[j].e)
  /\ Has(log, "composeDown")
       => \A h \in Range(allHandles) : \E i \in 1..Len(log) : log[i] = Ev("stop", h)
  /\ Has(log, "removeState") => Has(log, "composeDown")
  /\ pc = "stopped" => log[Len(log)] = Ev("Stopped", 0)

\* a stop with a preStop hook and two handles ran to its end
StopOrderWitness ==
  /\ pc = "stopped"
  /\ Has(thisStop, "preStop")
  /\ Len(allHandles) >= 2
  /\ Len(thisStop) >= 6

\* C16: a stopWorkspace call that finds no state file emits `No running
\* workspace found` and returns: no preStop hook, no stop(), no composeDown,
\* no removal of state; a second stop after a successful one is such a call.
NoStateStopIsNoOp ==
  [][/\ (pc = "sReadState" /\ ~stateFile.present)
          => /\ pc' = "noWorkspace"
             /\ stopLog' = Append(stopLog, Ev("No running workspace found", 0))
             /\ UNCHANGED <<stateFile, written, composeDownCalls, liveStop, hydStop>>
     /\ pc = "noWorkspace" => pc' \in {"noWorkspace", "sReadState"}
     /\ (pc = "stopped" /\ pc' # pc) => (pc' = "sReadState" /\ ~stateFile.present)]_vars

\* the second stop after a successful one found nothing to do
NoStateStopWitness ==
  /\ pc = "noWorkspace"
  /\ stopCalls = 2
  /\ Has(stopLog, "Stopped")
  /\ thisStop = <<Ev("No running workspace found", 0)>>

\* the steps of stopWorkspace
StopPhases == {"sReadState", "sPreStop", "sHandles", "sRemove"}

TargetReady(t) ==
  /\ t \in DOMAIN wStatuses
  /\ LET st == wStatuses[t]
     IN  IF t \in wMustExit
         THEN st.State = "exited" /\ st.ExitCode = 0
         ELSE \/ st.State = "running" /\ st.Health \in {"", "healthy"}
              \/ st.State = "exited" /\ st.ExitCode = 0

\* C18: composeWait resolves only after a poll in which every target is
\* ready: an init task only once exited with code 0, any other target when
\* running with Health empty or healthy or exited with code 0; a target that
\* is missing, starting, created or restarting is not ready.
WaitResolvesOnlyWhenReady ==
  /\ (wpc = "resolved" /\ wServices # {})
       => (wPolls >= 1 /\ \A t \in wServices : TargetReady(t))
  /\ wpc = "pending" => \E t \in wServices : ~TargetReady(t)

\* composeWait resolved on a later poll, an init task among its targets
WaitResolvesWitness ==
  /\ wpc = "resolved"
  /\ wServices = WaitNames
  /\ wMustExit = {"migrate"}
  /\ wPolls >= 2
  /\ wStatuses["migrate"].State = "exited"
  /\ wStatuses["db"].State = "running"

\* C19: whenever a poll reports a target with Health=unhealthy or a non-zero
\* exit code, composeWait fails in that same poll, whatever State is reported
\* for the service and however ready the other targets are.
UnhealthyOrNonZeroFailsAtOnce ==
  (\E t \in wServices \cap DOMAIN wStatuses :
      wStatuses[t].Health = "unhealthy" \/ wStatuses[t].ExitCode # 0)
    => (wpc = "failed" /\ wErr = "status")

Sent(sig) == \E i \in 1..Len(kills) : kills[i] = sig

\* what stop() owes on every platform: SIGKILL from the timer only, and a
\* result only once the process is gone, equal to what exitPromise holds
StopWaitsForExit ==
  /\ ppc = "awaiting" => (isRunning /\ stopResult = "pending")
  /\ ppc = "resolved"
       => /\ child \in {"closed", "errored"}
          /\ stopResult = exitPromise
          /\ child = "errored" => stopResult = "null"

\* C20 as stated: stop() on a running process sends SIGTERM first, sends
\* SIGKILL if and only if the process has not exited when timeoutMs has
\* elapsed, and resolves only once the process has exited, with its exit code
\* (null if the spawn errored).
StopGracefulThenForced ==
  /\ kills # <<>> => kills[1] = "SIGTERM"
  /\ Sent("SIGKILL") <=> timer = "fired"
  /\ timer = "fired" => clock >= timeoutMs
  /\ StopWaitsForExit

\* C20, amended: off win32 stop() sends SIGTERM first and SIGKILL if and only
\* if the timer fires, which it does only when timeoutMs has elapsed with the
\* process still running; on win32 it sends SIGKILL at once and nothing else;
\* on both it resolves only once the process has exited, with its exit code
\* (null if the spawn errored).
StopGracefulThenForcedOffWin32 ==
  /\ platform # "win32"
       => /\ kills # <<>> => kills[1] = "SIGTERM"
          /\ Sent("SIGKILL") <=> timer = "fired"
          /\ timer = "fired" => clock >= timeoutMs
          /\ Len(kills) <= 2
  /\ platform = "win32"
       => /\ ppc # "idle" /\ kills # <<>> => kills = <<"SIGKILL">>
          /\ timer = "none"
  /\ StopWaitsForExit

\* a process that ignored SIGTERM was killed by the timer and stop() resolved
StopGracefulThenForcedWitness ==
  /\ platform = "posix"
  /\ ~heedsTerm
  /\ timeoutMs = DEFAULT_STOP_TIMEOUT
  /\ kills = <<"SIGTERM", "SIGKILL">>
  /\ ppc = "resolved"
  /\ stopResult = "null"
  /\ child = "closed"


\* C21: ContainerHandle.stop() never rejects; `docker rm` is issued after
\* `docker stop` whether or not `docker stop` failed, and on a live handle the
\* log follower is killed after both commands whether or not either failed.
ContainerStopTolerant ==
  /\ cpc # "rejected"
  /\ cpc = "resolved" =>
       /\ Len(cLog) >= 2
       /\ cLog[1].cmd = "stop"
       /\ cLog[2].cmd = "rm"
       /\ ~cHydrated =>
            /\ Len(cLog) = 3
            /\ cLog[3].cmd = "kill"
            /\ cLogChild \in {"killed", "closed"}
            /\ ~cIsRunning

\* stop() resolved although both docker commands failed on a live handle
ContainerStopTolerantWitness ==
  /\ cpc = "resolved"
  /\ ~cHydrated
  /\ ~cLog[1].ok
  /\ ~cLog[2].ok
  /\ cLogChild = "killed"


\* C22: waitForReady terminates, by returning or by throwing a
\* ReadinessProbeError, within timeoutMs of wall-clock time from its call:
\* it is never still running, and never ends, later than timeoutMs after it
\* started.
ReadyEndsWithinTimeout == rpc # "idle" => rNow <= rTimeoutMs


\* X depends on Y
DagEdge(x, y) == y \in Range(dDeps[x])

\* every dependsOn entry names a service of the manifest
RefClosed == \A n \in DagNames : Range(dDeps[n]) \subseteq DagNames

\* the simple cycles of the dependency graph, each as the list of its nodes
CycleSeqs ==
  {q \in UNION {[1..k -> DagNames] : k \in 1..Cardinality(DagNames)} :
     /\ \A i, j \in DOMAIN q : q[i] = q[j] => i = j
     /\ \A i \in DOMAIN q : DagEdge(q[i], q[(i % Len(q)) + 1])}

\* the indices of the layers a service appears in, once per appearance
layerSlots(ls, n) ==
  {<<i, j>> \in (DOMAIN ls) \X (1..Cardinality(DagNames)) :
     j <= Len(ls[i]) /\ ls[i][j] = n}

\* C23: for every reference-closed, acyclic manifest buildDag returns layers
\* in which every service appears exactly once and nothing else appears, and
\* every dependency of a service lies in a layer of strictly smaller index.
DagLayersPartition ==
  (dpc = "done" /\ RefClosed /\ CycleSeqs = {}) =>
    /\ dResult.kind = "layers"
    /\ \A i \in DOMAIN dResult.layers : Range(dResult.layers[i]) \subseteq DagNames
    /\ \A n \in DagNames : Cardinality(layerSlots(dResult.layers, n)) = 1
    /\ \A n \in DagNames : \A d \in Range(dDeps[n]) :
         \A a \in layerSlots(dResult.layers, n), b \in layerSlots(dResult.layers, d) :
           b[1] < a[1]

\* a service that lists one dependency twice and another once was layered
DagLayersPartitionWitness ==
  /\ dpc = "done"
  /\ dResult.kind = "layers"
  /\ Len(dResult.layers) = 3
  /\ \E n \in DagNames : Len(dDeps[n]) = 2
  /\ \E n \in DagNames : Len(dDeps[n]) = 2 /\ dDeps[n][1] = dDeps[n][2]

\* the names a DagError's message carries
namedInError ==
  IF dResult.kind \in {"unknown", "cycle"} THEN Range(dResult.path) ELSE {}

\* C24 as stated: for every manifest whose dependency graph has a cycle,
\* buildDag throws a DagError whose message names every node of at least one
\* cycle of the graph.
DagCycleNamed ==
  (dpc = "done" /\ CycleSeqs # {}) =>
    /\ dResult.kind \in {"unknown", "cycle", "remaining"}
    /\ \E q \in CycleSeqs : Range(q) \subseteq namedInError

\* C24 amended: for every manifest whose dependsOn entries all name services
\* and whose dependency graph has a cycle, buildDag throws the cycle DagError,
\* whose message names every node of at least one cycle of the graph.
DagCycleNamedWhenRefClosed ==
  (dpc = "done" /\ RefClosed /\ CycleSeqs # {}) =>
    /\ dResult.kind = "cycle"
    /\ \E q \in CycleSeqs : Range(q) \subseteq namedInError

\* a cycle through all three services, and no shorter one, was reported
DagCycleNamedWitness ==
  /\ dpc = "done"
  /\ RefClosed
  /\ CycleSeqs # {}
  /\ \A q \in CycleSeqs : Len(q) = Cardinality(DagNames)
  /\ dResult.kind = "cycle"

\* C25: the path of the cycle DagError is a closed cycle A -> B -> C -> A: it
\* begins and ends with the same service, repeats no other service, and
\* every consecutive pair follows a dependency edge, all in one direction.
DagCyclePathClosed ==
  dResult.kind = "cycle" =>
    LET path == dResult.path
    IN  /\ Len(path) >= 2
        /\ path[1] = path[Len(path)]
        /\ \A i, j \in 1..(Len(path) - 1) : path[i] = path[j] => i = j
        /\ \/ \A i \in 1..(Len(path) - 1) : DagEdge(path[i], path[i + 1])
           \/ \A i \in 1..(Len(path) - 1) : DagEdge(path[i + 1], path[i])


\* S contains every dependency of its members
ClosedUnderDeps(S) == \A n \in S : Range(fDeps[n]) \subseteq S

\* the least set that contains R and is closed under dependsOn
LeastClosed(R) ==
  CHOOSE S \in SUBSET DagNames :
    /\ R \subseteq S
    /\ ClosedUnderDeps(S)
    /\ \A T \in SUBSET DagNames : (R \subseteq T /\ ClosedUnderDeps(T)) => S \subseteq T

occurrencesOf(str, pat) == {i \in 0..Len(str) : occursAt(str, pat, i)}

\* C27: for every hosts content X that holds no marker (X may be empty or
\* lack a final newline) and every generated block B,
\* removeHostsBlock(replaceHostsBlock(X, B)) is X, character for character.
HostsRoundTrip ==
  (/\ hpc = "removed"
   /\ occurrencesOf(hContent, MARKER_START) = {}
   /\ occurrencesOf(hContent, MARKER_END) = {}) => hRemoved = hContent

\* str holds exactly one marker block: one start marker, one end marker,
\* the start marker first
OneBlock(str) ==
  /\ Cardinality(occurrencesOf(str, MARKER_START)) = 1
  /\ Cardinality(occurrencesOf(str, MARKER_END)) = 1
  /\ indexOf(str, MARKER_START) < indexOf(str, MARKER_END)

\* the characters before the start marker
beforeBlock(str) == slice(str, 0, indexOf(str, MARKER_START))

\* the characters after the line the end marker is on
afterBlockLine(str) ==
  LET e == indexOf(str, MARKER_END)
      nls == {i \in e..(Len(str) - 1) : str[i + 1] = "n"}
  IN  IF nls = {} THEN <<>>
      ELSE sliceFrom(str, (CHOOSE i \in nls : \A j \in nls : i <= j) + 1)

\* C28: when the hosts content holds a marker block, replaceHostsBlock(X, B)
\* keeps every character before the start marker and every character after
\* the end-marker line, puts B where the start marker was, and its result
\* holds exactly one marker block.
ReplaceKeepsOutside ==
  (hpc # "called" /\ OneBlock(hContent)) =>
    LET before == beforeBlock(hContent)
        after == afterBlockLine(hContent)
    IN  /\ Len(hReplaced) >= Len(before) + Len(hBlock) + Len(after)
        /\ slice(hReplaced, 0, Len(before)) = before
        /\ slice(hReplaced, Len(before), Len(before) + Len(hBlock)) = hBlock
        /\ sliceFrom(hReplaced, Len(hReplaced) - Len(after)) = after
        /\ OneBlock(hReplaced)

\* a block with text before and after it was replaced by a different block
ReplaceKeepsOutsideWitness ==
  /\ hpc = "replaced"
  /\ OneBlock(hContent)
  /\ beforeBlock(hContent) # <<>>
  /\ afterBlockLine(hContent) # <<>>
  /\ hReplaced # hContent


\* both calls have been made and have ended
TwoCallsEnded == tpc = "ended" /\ Len(tOutcomes) = 2

\* C29 as stated: two consecutive trustCaddyCa calls for the same
\* certificate and workspace directory make exactly one install in total.
TwoCallsOneInstall == TwoCallsEnded => tInstalls[1] + tInstalls[2] = 1

\* C29 amended: when both calls succeed, the second makes no install, and
\* the first makes one unless the hash cached before it already matched the
\* certificate, in which case neither call installs.
TwoCallsAtMostOneInstall ==
  (TwoCallsEnded /\ tOutcomes = <<"resolved", "resolved">>) =>
    /\ tInstalls[2] = 0
    /\ tInstalls[1] = IF tCachedAtFirst THEN 0 ELSE 1

\* the first call installed over a stale hash and the second skipped
TwoCallsWitness ==
  /\ TwoCallsEnded
  /\ tOutcomes = <<"resolved", "resolved">>
  /\ ~tCachedAtFirst
  /\ tInstalls = <<1, 0>>


\* the keys both the plugin and the service define
DefinedByBoth ==
  IF eServiceEnv = NoEnv THEN {} ELSE DOMAIN ePluginEnv \cap DOMAIN eServiceEnv.vars

\* C30 as stated: in the environment buildServiceEnv returns, every key
\* defined both by the plugin's variables and by the service's own env
\* carries the service-defined value, in host and in container mode.
ServiceEnvWins ==
  epc = "done" => \A k \in DefinedByBoth : eResult[k] = eServiceEnv.vars[k]

\* the two variables injected last
ReservedKeys == {"LO1_SERVICE_NAME", "LO1_WORKSPACE_NAME"}

\* C30 amended: every key other than LO1_SERVICE_NAME and LO1_WORKSPACE_NAME
\* that both the plugin and the service define carries the service-defined
\* value, in host and in container mode; those two keys carry the service's
\* and the workspace's name whatever the plugin and the service define.
ServiceEnvWinsButReserved ==
  epc = "done" =>
    /\ \A k \in DefinedByBoth \ ReservedKeys : eResult[k] = eServiceEnv.vars[k]
    /\ eResult["LO1_SERVICE_NAME"] = <<EnvServiceName>>
    /\ eResult["LO1_WORKSPACE_NAME"] = <<EnvWorkspaceName>>

\* in host mode a plugin value that was rewritten lost to the service's
ServiceEnvWinsWitness ==
  /\ epc = "done"
  /\ eMode = "host"
  /\ "SHARED" \in DefinedByBoth
  /\ ePluginEnv["SHARED"] = <<"db=", "api:8080">>
  /\ eServiceEnv.vars["SHARED"] = <<"two">>
  /\ eResult["SHARED"] = <<"two">>


\* C31 as stated: the registry holds an endpoint for a service if and only
\* if the service has a port and its mode is not skip.
RegistryIffPortAndNotSkip ==
  gpc = "done" =>
    \A n \in RegNames :
      n \in DOMAIN gResult <=> (gServices[n].port.given /\ gServices[n].mode # "skip")

\* C31 amended: the registry holds an endpoint for a service if and only if
\* the service has a port other than 0 and its mode is not skip.
RegistryIffNonZeroPortAndNotSkip ==
  gpc = "done" =>
    \A n \in RegNames :
      n \in DOMAIN gResult <=>
        (/\ gServices[n].port.given
         /\ gServices[n].port.value # 0
         /\ gServices[n].mode # "skip")

\* one service was registered and one with a port was left out for its mode
RegistryWitness ==
  /\ gpc = "done"
  /\ "api" \in DOMAIN gResult
  /\ gResult["api"].hostPort = 9090
  /\ "web" \notin DOMAIN gResult
  /\ gServices["web"].port = Given(3000)
  /\ gServices["web"].mode = "skip"

\* C32: in the teardown of startServicesInLayers every handle of a later
\* layer is stopped before any handle of an earlier layer: while the loop
\* runs, no handle already stopped lies in an earlier layer than one still
\* to be stopped.
TeardownReverseOrder ==
  pc = "teardown" =>
    \A i \in 1..Len(allHandles) : \A j \in 1..Len(allHandles) :
      (i < tdIdx /\ j >= tdIdx) => layerOf(allHandles[j]) <= layerOf(allHandles[i])

\* C33: the signal is checked before each compose-up phase: when it tripped
\* after the infra phase had completed and before the app phase, composeUp
\* is not invoked for the app services.
NoAppUpAfterAbort ==
  (abortPc = "appUp" /\ "infra" \in waited) => "app" \notin composeUpCalled

\* the steps of startWorkspace that follow the baseline state write
AfterBaseWrite ==
  {"infraUp", "infraWait", "appUp", "appWait", "tls", "postInfra", "provision",
   "seed", "layerStart", "layerWait", "writeFinal", "postSetup"}

\* lo1 up has ended after startWorkspace failed past the baseline state
\* write, and --skip-teardown was not given
UpEndedAfterFailure ==
  /\ upc \in {"rethrown", "returned"}
  /\ err # "none"
  /\ failPhase \in AfterBaseWrite
  /\ ~uSkipTeardown

\* what the teardown of lo1 up did: stopWorkspace was called on the state
\* file; unless its preStop hook failed it ran composeDown on the recorded
\* project, and it removed the state file when nothing failed
UpTornDown ==
  /\ stopCalls = 1
  /\ stopHandles = "hydrated"
  /\ (stopErr # "HookError" =>
        /\ Len(composeDownCalls) > 0
        /\ composeDownCalls[Len(composeDownCalls)] = projectName)
  /\ (stopErr = "none" => ~stateFile.present)

ReadyEnded == rpc \in {"returned", "thrown"}

\* C35 as stated: once the signal has tripped no further HTTP attempt is
\* issued, and waitForReady ends by throwing ReadinessProbeError.
AbortedProbeThrows ==
  [][(rSignal' =>
        /\ (rpc' = "fetching" => rpc = "fetching")
        /\ (ReadyEnded' => rpc' = "thrown"))]_vars

\* C35 amended: once the signal has tripped no further HTTP attempt is
\* issued, and waitForReady ends by throwing ReadinessProbeError unless the
\* attempt that was in flight when the signal tripped comes back with a 2xx
\* status.
AbortedProbeThrowsUnlessInFlight ==
  [][(rSignal' =>
        /\ (rpc' = "fetching" => rpc = "fetching")
        /\ (ReadyEnded' => (rpc' = "thrown" \/ rAbortPc' = "fetching")))]_vars

\* the signal tripped during the sleep and the next loop head threw
AbortedProbeWitness ==
  /\ rSignal
  /\ rAbortPc = "sleeping"
  /\ rpc = "thrown"
  /\ rReason = "aborted"

\* composeWait has resolved or rejected
WaitEnded == wpc \in {"resolved", "failed"}

\* the targets that the last pass found neither ready nor failed
stillPending == {s \in wServices : verdict(wStatuses, s, wMustExit) = "pending"}

\* C36: composeWait does not poll forever; when the targets never all
\* become ready and none fails it ends with the timeout error, raised only
\* once the timeout has elapsed, and the message lists every target that was
\* still pending.
WaitTimesOut ==
  /\ <>WaitEnded
  /\ [](wErr = "timeout" =>
          /\ wNow > wTimeout
          /\ {m.service : m \in wMsg} = stillPending)

\* two polls found the two targets pending (one not reported, one init task
\* still running) and the timeout error lists both
WaitTimesOutWitness ==
  /\ wErr = "timeout"
  /\ wPolls >= 2
  /\ wServices = WaitNames
  /\ wMsg = {[service |-> "db", note |-> "not found"],
             [service |-> "migrate", note |-> "waiting to exit"]}

\* C37: when the postStart hook fails after the runner has been started,
\* startService invokes stop() on the runner's handle before it rejects: no
\* rejected startService call leaves a runner it started without a stop().
PostStartFailureStopsRunner ==
  \A s \in Services :
    (/\ spc[s] = "rejected"
     /\ \E i \in 1..Len(svcLog[s]) : svcLog[s][i] = "spawn")
      => liveStop[s] # "none"

\* stopWorkspace has ended after stop() of one of the handles it was given
\* rejected
StopEndedAfterRejection ==
  /\ pc \in {"stopped", "stopFailed"}
  /\ stopHandles = "live"
  /\ \E i \in 1..Len(allHandles) : liveStop[allHandles[i]] = "rejected"

\* C38: in stopWorkspace a handle whose stop() rejects keeps neither the
\* remaining handles from having stop() invoked nor composeDown from being
\* run on the recorded project.
StopGoesOnAfterRejection ==
  StopEndedAfterRejection =>
    /\ \A i \in 1..Len(allHandles) : liveStop[allHandles[i]] # "none"
    /\ \E i \in 1..Len(stopLog) : stopLog[i].e = "composeDown"

\* the steps of stopWorkspace
StopPcs == {"sReadState", "sPreStop", "sHandles", "sRemove"}

\* C39: stopWorkspace removes the state file only once composeDown has
\* succeeded in the same invocation: the step that removes it follows a
\* composeDown with nothing having failed, and whenever stopWorkspace
\* rejects (preStop hook, a handle's stop(), composeDown) the state file is
\* still there.
StateRemovedOnlyAfterComposeDown ==
  [][(/\ ((pc \in StopPcs /\ stateFile.present /\ ~stateFile'.present) =>
            /\ stopErr = "none"
            /\ stopLog # <<>>
            /\ stopLog[Len(stopLog)].e = "composeDown")
      /\ (pc' = "stopFailed" => stateFile'.present))]_vars

\* composeDown failed after the handles were stopped, and the state file is
\* still there
StateKeptWitness ==
  /\ pc = "stopFailed"
  /\ stopErr = "ComposeExecError"
  /\ Len(composeDownCalls) > 0
  /\ stateFile.present
  /\ stateFile.services # <<>>

\* C40: the stop() of a process handle hydrated from the state file follows
\* the protocol of the live ProcessHandle: SIGTERM, then SIGKILL if the
\* process has not exited within the timeout, and stop() resolves only once
\* the process has exited.
HydratedStopAsLive ==
  /\ (hypc = "resolved" => hyProc = "exited")
  /\ ((hyKills # <<>> /\ hyProc = "running" /\ hyClock > DEFAULT_STOP_TIMEOUT) =>
        \E i \in 1..Len(hyKills) : hyKills[i] = "SIGKILL")

====
